---- MODULE Spec2Model ----
(***************************************************************************)
(* OpenClaw-Mem: the observation store (sessions, observations, FTS index), *)
(* the worker's HTTP handlers over it, and the two observation classifiers. *)
(*                                                                         *)
(* Conventions of the model:                                                *)
(*   - a JavaScript string is a sequence of one-character strings, so that  *)
(*     toLowerCase, includes and the FTS tokenizer are computed, not        *)
(*     assumed;                                                             *)
(*   - an importance is an integer number of hundredths (0.9 is 90);        *)
(*   - a timestamp (CURRENT_TIMESTAMP) is the value of the clock `now`;     *)
(*   - a nullable column or an optional request field is None or Some(v).   *)
(***************************************************************************)
EXTENDS Integers, Sequences, FiniteSets, TLC

(***************************************************************************)
(* String literals of the source, as character sequences.                   *)
(***************************************************************************)
\* The words and type tags of the classifiers, and the truncation marker.
S ==
    [fix |-> <<"f", "i", "x">>,
     fixed |-> <<"f", "i", "x", "e", "d">>,
     resolved |-> <<"r", "e", "s", "o", "l", "v", "e", "d">>,
     error |-> <<"e", "r", "r", "o", "r">>,
     write |-> <<"w", "r", "i", "t", "e">>,
     edit |-> <<"e", "d", "i", "t">>,
     exec |-> <<"e", "x", "e", "c">>,
     bash |-> <<"b", "a", "s", "h">>,
     git |-> <<"g", "i", "t">>,
     npm |-> <<"n", "p", "m">>,
     yarn |-> <<"y", "a", "r", "n">>,
     test |-> <<"t", "e", "s", "t">>,
     passed |-> <<"p", "a", "s", "s", "e", "d">>,
     failed |-> <<"f", "a", "i", "l", "e", "d">>,
     search |-> <<"s", "e", "a", "r", "c", "h">>,
     web_ |-> <<"w", "e", "b", "_">>,
     read |-> <<"r", "e", "a", "d">>,
     success |-> <<"s", "u", "c", "c", "e", "s", "s">>,
     completed |-> <<"c", "o", "m", "p", "l", "e", "t", "e", "d">>,
     bugfix |-> <<"b", "u", "g", "f", "i", "x">>,
     code_change |-> <<"c", "o", "d", "e", "_", "c", "h", "a", "n", "g", "e">>,
     git_operation |-> <<"g", "i", "t", "_", "o", "p", "e", "r", "a", "t", "i", "o", "n">>,
     dependency |-> <<"d", "e", "p", "e", "n", "d", "e", "n", "c", "y">>,
     testing |-> <<"t", "e", "s", "t", "i", "n", "g">>,
     command |-> <<"c", "o", "m", "m", "a", "n", "d">>,
     exploration |-> <<"e", "x", "p", "l", "o", "r", "a", "t", "i", "o", "n">>,
     research |-> <<"r", "e", "s", "e", "a", "r", "c", "h">>,
     tool_use |-> <<"t", "o", "o", "l", "_", "u", "s", "e">>,
     decision |-> <<"d", "e", "c", "i", "s", "i", "o", "n">>,
     architecture |-> <<"a", "r", "c", "h", "i", "t", "e", "c", "t", "u", "r", "e">>,
     truncated |-> <<".", ".", ".", " ", "[", "t", "r", "u", "n", "c", "a", "t", "e", "d", "]">>]

S_memory_store == <<"m", "e", "m", "o", "r", "y", "_", "s", "t", "o", "r", "e">>

S_empty == <<>>

S_Manually_stored == <<"M", "a", "n", "u", "a", "l", "l", "y", " ", "s", "t", "o", "r", "e", "d">>

\* Texts the callers send: tool names, inputs, outputs, summaries, search
\* queries and the max_tokens parameter.
Text ==
    [please_fix_the_bug |-> <<"p", "l", "e", "a", "s", "e", " ", "f", "i", "x", " ", "t", "h", "e", " ", "b", "u", "g">>,
     fix_null_pointer |-> <<"f", "i", "x", " ", "n", "u", "l", "l", " ", "p", "o", "i", "n", "t", "e", "r">>,
     git_status |-> <<"g", "i", "t", " ", "s", "t", "a", "t", "u", "s">>,
     npm_install |-> <<"n", "p", "m", " ", "i", "n", "s", "t", "a", "l", "l">>,
     run_test |-> <<"r", "u", "n", " ", "t", "e", "s", "t">>,
     ls |-> <<"l", "s">>,
     fixed_tests_passed |-> <<"f", "i", "x", "e", "d", ",", " ", "t", "e", "s", "t", "s", " ", "p", "a", "s", "s", "e", "d">>,
     Fixed_the_error |-> <<"F", "i", "x", "e", "d", " ", "t", "h", "e", " ", "e", "r", "r", "o", "r">>,
     ok |-> <<"o", "k">>,
     use_sqlite |-> <<"u", "s", "e", " ", "s", "q", "l", "i", "t", "e">>,
     null_pointer |-> <<"n", "u", "l", "l", " ", "p", "o", "i", "n", "t", "e", "r">>,
     bad_query |-> <<"(", "f", "i", "x">>,
     tests |-> <<"t", "e", "s", "t", "s">>,
     Write |-> <<"W", "r", "i", "t", "e">>,
     Read |-> <<"R", "e", "a", "d">>,
     web_search |-> <<"w", "e", "b", "_", "s", "e", "a", "r", "c", "h">>,
     grep |-> <<"g", "r", "e", "p">>,
     n0 |-> <<"0">>,
     n100 |-> <<"1", "0", "0">>]

(***************************************************************************)
(* Optional values: SQL NULL / JavaScript undefined is None.                *)
(***************************************************************************)
None == <<>>

Some(v) == <<v>>

Val(o) == o[1]

\* JavaScript `x || null` on a string: undefined, null and "" become NULL.
OrNullStr(o) == IF o = None \/ o = Some(<<>>) THEN None ELSE o

\* The same on a project path, which the model keeps as an opaque string.
OrNullPath(o) == IF o = None \/ o = Some("") THEN None ELSE o

\* JavaScript `x || null` on a number: undefined, null and 0 become NULL.
OrNullNum(o) == IF o = None \/ o = Some(0) THEN None ELSE o

(***************************************************************************)
(* Strings.                                                                 *)
(***************************************************************************)
UpperChars == <<"A","B","C","D","E","F","G","H","I","J","K","L","M",
                "N","O","P","Q","R","S","T","U","V","W","X","Y","Z">>

LowerChars == <<"a","b","c","d","e","f","g","h","i","j","k","l","m",
                "n","o","p","q","r","s","t","u","v","w","x","y","z">>

DigitChars == {"0","1","2","3","4","5","6","7","8","9"}

UpperSet == { UpperChars[i] : i \in 1..Len(UpperChars) }

LowerSet == { LowerChars[i] : i \in 1..Len(LowerChars) }

LowerMap ==
    [c \in UpperSet |-> LowerChars[CHOOSE i \in 1..Len(UpperChars) : UpperChars[i] = c]]

LowerChar(c) == IF c \in UpperSet THEN LowerMap[c] ELSE c

\* String.prototype.toLowerCase
toLowerCase(s) == [i \in 1..Len(s) |-> LowerChar(s[i])]

\* String.prototype.includes
includes(s, sub) ==
    \E i \in 0..(Len(s) - Len(sub)) : SubSeq(s, i + 1, i + Len(sub)) = sub

\* String.prototype.substring(0, n)
substring0(s, n) == SubSeq(s, 1, IF n < Len(s) THEN n ELSE Len(s))

(***************************************************************************)
(* Bounds of the model.                                                     *)
(***************************************************************************)
\* The clock runs from 1 to MaxTime.
MaxTime == 2

\* At most MaxObs observations are ingested one by one.
MaxObs == 2

\* Session keys and project paths the callers use.
SessionKeys == {"s1", "s2"}

ProjectPaths == {None, Some("p1")}

\* The create requests of the callers: s1 works in project p1, s2 in none.
SessionRequests == {<<"s1", Some("p1")>>, <<"s2", None>>}

SummaryOpts == {None, Some(Text.ok)}

(***************************************************************************)
(* State.                                                                   *)
(*   sessions          rows of table sessions; sessions[i].id = i           *)
(*   observations      rows of table observations; observations[i].id = i   *)
(*   observations_fts  the FTS5 index: rowid -> set of indexed tokens       *)
(*   now               CURRENT_TIMESTAMP                                    *)
(*   resp              the last exchange: the route (op), the status and    *)
(*                     the body answered, with the request fields the       *)
(*                     properties below speak of                            *)
(*   endApplied        history: ids of the sessions an end operation has    *)
(*                     been applied to                                      *)
(*   cfg               the plugin's configuration (autoCapture, autoRecall) *)
(*   currentSessionKey, workerAvailable                                     *)
(*                     the two variables of the plugin's register()         *)
(***************************************************************************)
VARIABLES sessions, observations, observations_fts, now, resp, endApplied,
          cfg, currentSessionKey, workerAvailable

vars == <<sessions, observations, observations_fts, now, resp, endApplied,
          cfg, currentSessionKey, workerAvailable>>

\* The defaults of configSchema.
DefaultConfig == [autoCapture |-> TRUE, autoRecall |-> TRUE, maxContextTokens |-> 4000]

\* register(api) under configuration c: no session yet, worker not seen.
register(c) ==
    /\ cfg = c
    /\ currentSessionKey = None
    /\ workerAvailable = FALSE

\* The database as one value, for the operators below.
DB == [sessions |-> sessions, observations |-> observations, fts |-> observations_fts]

EmptyDB == [sessions |-> <<>>, observations |-> <<>>, fts |-> <<>>]

SetDB(db) ==
    /\ sessions' = db.sessions
    /\ observations' = db.observations
    /\ observations_fts' = db.fts

(***************************************************************************)
(* MemoryDatabase: sessions.                                                *)
(***************************************************************************)
\* SELECT * FROM sessions WHERE session_key = ? : None or Some(row)
getSession(db, sessionKey) ==
    IF \E i \in 1..Len(db.sessions) : db.sessions[i].session_key = sessionKey
    THEN Some(db.sessions[CHOOSE i \in 1..Len(db.sessions) :
                              db.sessions[i].session_key = sessionKey])
    ELSE None

\* A plain INSERT: session_key is UNIQUE, so a second insert of a key throws
\* (ok = FALSE) and leaves the table as it was.  Columns started_at,
\* summary_tokens and metadata are left out: no operation of the model reads them.
createSession(db, sessionKey, projectPath, t) ==
    IF getSession(db, sessionKey) # None
    THEN [ok |-> FALSE, db |-> db, row |-> None]
    ELSE LET row == [id |-> Len(db.sessions) + 1,
                     session_key |-> sessionKey,
                     project_path |-> OrNullPath(projectPath),
                     ended_at |-> None,
                     summary |-> None]
         IN [ok |-> TRUE,
             db |-> [db EXCEPT !.sessions = Append(@, row)],
             row |-> Some(row)]

\* endSession as an upsert: a key without a session gets one, already ended.
endSession_Upsert(db, sessionKey, summary, t) ==
    IF getSession(db, sessionKey) = None
    THEN [db EXCEPT !.sessions =
             Append(@, [id |-> Len(@) + 1,
                        session_key |-> sessionKey,
                        project_path |-> None,
                        ended_at |-> Some(t),
                        summary |-> OrNullStr(summary)])]
    ELSE [db EXCEPT !.sessions =
             [i \in 1..Len(@) |->
                 IF @[i].session_key = sessionKey
                 THEN [@[i] EXCEPT !.ended_at = Some(t), !.summary = OrNullStr(summary)]
                 ELSE @[i]]]

\* Mutant of endSession: the UPDATE without its WHERE clause.
endSession_NoWhere(db, sessionKey, summary, t) ==
    [db EXCEPT !.sessions =
        [i \in 1..Len(@) |->
            [@[i] EXCEPT !.ended_at = Some(t), !.summary = OrNullStr(summary)]]]

\* UPDATE sessions SET ended_at = CURRENT_TIMESTAMP, summary = ? WHERE session_key = ?
endSession(db, sessionKey, summary, t) ==
    [db EXCEPT !.sessions =
        [i \in 1..Len(@) |->
            IF @[i].session_key = sessionKey
            THEN [@[i] EXCEPT !.ended_at = Some(t), !.summary = OrNullStr(summary)]
            ELSE @[i]]]

(***************************************************************************)
(* The FTS5 index (schema.sql): observations_fts and its insert trigger.    *)
(***************************************************************************)
IsAlnum(c) == c \in DigitChars \/ c \in LowerSet \/ c \in UpperSet

\* The unicode61 tokenizer, scanning s from character i: cur is the run of
\* alphanumeric characters being read (lower-cased), acc the tokens read.
RECURSIVE tokenScan(_, _, _, _)
tokenScan(s, i, cur, acc) ==
    IF i > Len(s)
    THEN IF cur = <<>> THEN acc ELSE acc \cup {cur}
    ELSE IF IsAlnum(s[i])
    THEN tokenScan(s, i + 1, Append(cur, LowerChar(s[i])), acc)
    ELSE tokenScan(s, i + 1, <<>>, IF cur = <<>> THEN acc ELSE acc \cup {cur})

\* The tokens of s: its maximal alphanumeric runs, lower-cased.
Tokens(s) == tokenScan(s, 1, <<>>, {})

\* The tokens of a nullable text column.
ColTokens(o) == IF o = None THEN {} ELSE Tokens(Val(o))

\* What trigger observations_ai indexes for a row: the five text columns.
FtsDoc(row) ==
    Tokens(row.type) \cup ColTokens(row.tool_name) \cup ColTokens(row.input)
        \cup ColTokens(row.output) \cup ColTokens(row.summary)

\* Mutant of observations_ai: the trigger indexes type, tool_name and summary
\* but not the input and output columns.
observations_ai_NoText(fts, row) ==
    Append(fts, Tokens(row.type) \cup ColTokens(row.tool_name) \cup ColTokens(row.summary))

\* AFTER INSERT ON observations: INSERT INTO observations_fts(rowid, ...).
observations_ai(fts, row) == Append(fts, FtsDoc(row))

(***************************************************************************)
(* MemoryDatabase: observations.                                            *)
(***************************************************************************)
\* The importance column when the caller gave none (`?? 0.5`, DEFAULT 0.5).
DefaultImportance == 50

\* The row INSERT INTO observations (...) VALUES (...) stores for o, under the
\* AUTOINCREMENT id given, at CURRENT_TIMESTAMP t.  Column metadata is left
\* out: no operation of the model reads it.
observationRow(o, id, t) ==
    [id |-> id,
     session_id |-> o.session_id,
     type |-> o.type,
     tool_name |-> OrNullStr(o.tool_name),
     input |-> OrNullStr(o.input),
     output |-> OrNullStr(o.output),
     summary |-> OrNullStr(o.summary),
     tokens |-> OrNullNum(o.tokens),
     importance |-> IF o.importance = None THEN DefaultImportance ELSE Val(o.importance),
     created_at |-> t]

\* createObservation as INSERT OR REPLACE under the id of the newest row: a
\* second insert takes the place of the first.
createObservation_ReuseId(db, o, t) ==
    IF o.session_id \notin 1..Len(db.sessions)
    THEN [ok |-> FALSE, db |-> db, row |-> None]
    ELSE IF Len(db.observations) = 0
    THEN LET row == observationRow(o, 1, t)
         IN [ok |-> TRUE,
             db |-> [db EXCEPT !.observations = Append(@, row),
                               !.fts = observations_ai(@, row)],
             row |-> Some(row)]
    ELSE LET row == observationRow(o, Len(db.observations), t)
         IN [ok |-> TRUE,
             db |-> [db EXCEPT !.observations[Len(db.observations)] = row,
                               !.fts[Len(db.observations)] = FtsDoc(row)],
             row |-> Some(row)]

\* INSERT INTO observations ... RETURNING *.  o.session_id must reference a
\* session (foreign_keys = ON), else the insert throws (ok = FALSE).
createObservation(db, o, t) ==
    IF o.session_id \notin 1..Len(db.sessions)
    THEN [ok |-> FALSE, db |-> db, row |-> None]
    ELSE LET row == observationRow(o, Len(db.observations) + 1, t)
         IN [ok |-> TRUE,
             db |-> [db EXCEPT !.observations = Append(@, row),
                               !.fts = observations_ai(@, row)],
             row |-> Some(row)]

(***************************************************************************)
(* MemoryDatabase.search                                                    *)
(***************************************************************************)
\* The default of options.limit (`options.limit || 10`).
DefaultLimit == 10

\* The words of an FTS5 query, scanning q from character i: its maximal runs
\* of non-space characters.
RECURSIVE wordScan(_, _, _, _)
wordScan(q, i, cur, acc) ==
    IF i > Len(q)
    THEN IF cur = <<>> THEN acc ELSE acc \cup {cur}
    ELSE IF q[i] # " "
    THEN wordScan(q, i + 1, Append(cur, q[i]), acc)
    ELSE wordScan(q, i + 1, <<>>, IF cur = <<>> THEN acc ELSE acc \cup {cur})

QueryWords(q) == wordScan(q, 1, <<>>, {})

\* A query of the model parses when it is a non-empty list of barewords; an
\* empty query or a word with an FTS5 operator character is a syntax error.
QueryParses(q) ==
    /\ QueryWords(q) # {}
    /\ \A w \in QueryWords(q) : \A k \in 1..Len(w) : IsAlnum(w[k])

\* The terms of a query that parses (barewords are implicitly AND-ed).
QueryTerms(q) == UNION { Tokens(w) : w \in QueryWords(q) }

\* search whose statement has lost its `AND o.created_at >= ?`.
searchMatches_NoSince(db, query, type, since) ==
    { i \in 1..Len(db.fts) :
        /\ i \in 1..Len(db.observations)
        /\ QueryTerms(query) \subseteq db.fts[i]
        /\ (type = None \/ type = Some(<<>>) \/ db.observations[i].type = Val(type)) }

\* The rowids the statement selects before ORDER BY rank LIMIT ?:
\* observations_fts MATCH ? joined to observations, AND type = ?, AND created_at >= ?.
searchMatches(db, query, type, since) ==
    { i \in 1..Len(db.fts) :
        /\ i \in 1..Len(db.observations)
        /\ QueryTerms(query) \subseteq db.fts[i]
        /\ (type = None \/ type = Some(<<>>) \/ db.observations[i].type = Val(type))
        /\ (since = None \/ db.observations[i].created_at >= Val(since)) }

\* options.limit || 10
searchLimit(limit) == IF limit = None \/ limit = Some(0) THEN DefaultLimit ELSE Val(limit)

\* The result sets search can return: the bm25 order is not modelled, so under
\* LIMIT any searchLimit(limit) of the matching rows may be the ones returned.
\* A negative LIMIT is no limit in SQLite.
searchResults(db, query, type, since, limit) ==
    LET m == searchMatches(db, query, type, since)
        n == searchLimit(limit)
    IN IF n < 0 \/ Cardinality(m) <= n
       THEN {m}
       ELSE { r \in SUBSET m : Cardinality(r) = n }

(***************************************************************************)
(* MemoryDatabase.getContextForInjection                                    *)
(***************************************************************************)
\* options.maxTokens || 4000
DefaultMaxTokens == 4000

\* `obs.tokens || 100`: the estimate for a row without a stored token count.
FallbackTokens == 100

\* LIMIT 100 of the candidate query.
CandidateLimit == 100

\* The importance floor of the candidate query (importance >= 0.5).
MinContextImportance == 50

\* options.includeTypes || ['decision', 'bugfix', 'architecture']
DefaultIncludeTypes == {S.decision, S.bugfix, S.architecture}

\* const maxTokens = options.maxTokens || 4000 : undefined and 0 give 4000.
effectiveMaxTokens(maxTokens) ==
    IF maxTokens = None \/ maxTokens = Some(0) THEN DefaultMaxTokens ELSE Val(maxTokens)

effectiveIncludeTypes(includeTypes) ==
    IF includeTypes = None THEN DefaultIncludeTypes ELSE Val(includeTypes)

\* The WHERE clause without its project condition.
contextFilter_NoProject(db, projectPath, includeTypes) ==
    { i \in 1..Len(db.observations) :
        /\ db.observations[i].type \in effectiveIncludeTypes(includeTypes)
        /\ db.observations[i].importance >= MinContextImportance }

\* The WHERE clause: type IN (...) AND importance >= 0.5 [AND session_id IN
\* (SELECT id FROM sessions WHERE project_path = ?)]; `if (options.projectPath)`
\* skips the project filter for undefined and "".
contextFilter(db, projectPath, includeTypes) ==
    { i \in 1..Len(db.observations) :
        /\ db.observations[i].type \in effectiveIncludeTypes(includeTypes)
        /\ db.observations[i].importance >= MinContextImportance
        /\ \/ OrNullPath(projectPath) = None
           \/ \E k \in 1..Len(db.sessions) :
                /\ db.sessions[k].id = db.observations[i].session_id
                /\ db.sessions[k].project_path = projectPath }

\* ORDER BY importance DESC, created_at DESC: row a comes before row b.  SQL
\* leaves the order of rows equal on both keys open; tie says which of the two
\* rowid orders the engine produced for them.
contextBefore(a, b, tie) ==
    \/ a.importance > b.importance
    \/ a.importance = b.importance /\ a.created_at > b.created_at
    \/ /\ a.importance = b.importance
       /\ a.created_at = b.created_at
       /\ IF tie = "rowid_asc" THEN a.id < b.id ELSE a.id > b.id

\* The ids of set ids in the order of the query: each id paired with the
\* number of ids that come before it.
contextOrder(db, ids, tie) ==
    LET ranked == { <<Cardinality({ j \in ids :
                        contextBefore(db.observations[j], db.observations[i], tie) }), i>> :
                    i \in ids }
    IN [k \in 1..Cardinality(ids) |-> (CHOOSE p \in ranked : p[1] = k - 1)[2]]

\* The rows the statement returns: filtered, ordered, LIMIT 100.
contextCandidates(db, projectPath, includeTypes, tie) ==
    LET all == contextOrder(db, contextFilter(db, projectPath, includeTypes), tie)
    IN SubSeq(all, 1, IF Len(all) < CandidateLimit THEN Len(all) ELSE CandidateLimit)

\* const obsTokens = obs.tokens || 100
obsTokens(row) ==
    IF row.tokens = None \/ row.tokens = Some(0) THEN FallbackTokens ELSE Val(row.tokens)

\* Mutant of budgetLoop: a row that does not fit is skipped (continue) and the
\* loop goes on, where the code stops (break).
RECURSIVE budgetLoop_Skip(_, _, _, _, _)
budgetLoop_Skip(db, rows, k, acc, maxTokens) ==
    IF k >= Len(rows) THEN acc
    ELSE LET cost == IF db.observations[rows[k + 1]].tokens = None
                     THEN FallbackTokens
                     ELSE Val(db.observations[rows[k + 1]].tokens)
         IN IF acc.totalTokens + cost <= maxTokens
            THEN budgetLoop_Skip(db, rows, k + 1,
                                 [observations |-> Append(acc.observations, rows[k + 1]),
                                  totalTokens |-> acc.totalTokens + cost],
                                 maxTokens)
            ELSE budgetLoop_Skip(db, rows, k + 1, acc, maxTokens)

\* The for loop over rows: k rows are done, acc is [observations, totalTokens].
RECURSIVE budgetLoop(_, _, _, _, _)
budgetLoop(db, rows, k, acc, maxTokens) ==
    IF k >= Len(rows) THEN acc
    ELSE LET cost == obsTokens(db.observations[rows[k + 1]])
         IN IF acc.totalTokens + cost <= maxTokens
            THEN budgetLoop(db, rows, k + 1,
                            [observations |-> Append(acc.observations, rows[k + 1]),
                             totalTokens |-> acc.totalTokens + cost],
                            maxTokens)
            ELSE acc

\* getContextForInjection: [observations (ids, in order), totalTokens].
getContextForInjection(db, projectPath, maxTokens, includeTypes, tie) ==
    budgetLoop(db, contextCandidates(db, projectPath, includeTypes, tie), 0,
               [observations |-> <<>>, totalTokens |-> 0],
               effectiveMaxTokens(maxTokens))

(***************************************************************************)
(* The worker's classifier (worker/server.ts).                              *)
(***************************************************************************)
classifyObservation(toolName, input, output) ==
    LET lowerTool == toLowerCase(toolName)
        lowerInput == toLowerCase(input)
        lowerOutput == toLowerCase(output)
    IN IF includes(lowerTool, S.write) \/ includes(lowerTool, S.edit)
       THEN IF includes(lowerInput, S.fix) \/ includes(lowerOutput, S.fixed)
            THEN S.bugfix
            ELSE S.code_change
       ELSE IF includes(lowerTool, S.exec) \/ lowerTool = S.bash
       THEN IF includes(lowerInput, S.git) THEN S.git_operation
            ELSE IF includes(lowerInput, S.npm) \/ includes(lowerInput, S.yarn)
            THEN S.dependency
            ELSE IF includes(lowerInput, S.test) THEN S.testing
            ELSE S.command
       ELSE IF includes(lowerTool, S.read) THEN S.exploration
       ELSE IF includes(lowerTool, S.search) THEN S.research
       ELSE S.tool_use

\* typeImportance[type] || 0.5, for a type that is an own key of the table or
\* no key at all.
typeImportance(type) ==
    CASE type = S.bugfix -> 90
      [] type = S.architecture -> 90
      [] type = S.decision -> 85
      [] type = S.code_change -> 70
      [] type = S.git_operation -> 60
      [] type = S.testing -> 60
      [] type = S.dependency -> 50
      [] type = S.research -> 40
      [] type = S.exploration -> 30
      [] type = S.command -> 40
      [] type = S.tool_use -> 50
      [] OTHER -> 50

\* Math.min(a, 1.0)
min100(a) == IF a < 100 THEN a ELSE 100

\* typeImportance is an object literal, so a lookup also finds the keys it
\* inherits from Object.prototype ("constructor", "toString", ...), whose
\* values are functions: truthy, so `|| 0.5` keeps them.
ObjectPrototypeKeys ==
    { <<"c", "o", "n", "s", "t", "r", "u", "c", "t", "o", "r">>,
      <<"t", "o", "S", "t", "r", "i", "n", "g">> }

\* The number returned, Some(hundredths), or None when the value returned is
\* no number: for an inherited key the function itself, or NaN once an
\* adjustment has added to it (function + 0.1 is a string, Math.min of which
\* is NaN).
calculateImportance(type, toolName, input, output) ==
    LET lowerOutput == toLowerCase(output)
        base == typeImportance(type)
        afterError == IF includes(lowerOutput, S.error) \/ includes(lowerOutput, S.failed)
                      THEN min100(base + 10)
                      ELSE base
    IN IF type \in ObjectPrototypeKeys
       THEN None
       ELSE IF includes(lowerOutput, S.success) \/ includes(lowerOutput, S.completed)
       THEN Some(min100(afterError + 5))
       ELSE Some(afterError)

\* The lengths the tool-result hook truncates input and output to.
InputMaxLength == 5000

OutputMaxLength == 10000


truncateForStorage(text, maxLength) ==
    IF Len(text) <= maxLength THEN text ELSE substring0(text, maxLength) \o S.truncated

(***************************************************************************)
(* The plugin's classifier (extension/index.ts): [type, importance].        *)
(***************************************************************************)
classifyToolResult(toolName, input, output) ==
    LET lowerTool == toLowerCase(toolName)
        lowerInput == toLowerCase(input)
        lowerOutput == toLowerCase(output)
    IN IF \/ includes(lowerInput, S.fix) \/ includes(lowerOutput, S.fixed)
          \/ includes(lowerOutput, S.resolved) \/ includes(lowerOutput, S.error)
       THEN [type |-> S.bugfix, importance |-> 90]
       ELSE IF includes(lowerTool, S.write) \/ includes(lowerTool, S.edit)
       THEN [type |-> S.code_change, importance |-> 70]
       ELSE IF includes(lowerTool, S.exec) /\ includes(lowerInput, S.git)
       THEN [type |-> S.git_operation, importance |-> 60]
       ELSE IF \/ includes(lowerInput, S.test) \/ includes(lowerOutput, S.passed)
               \/ includes(lowerOutput, S.failed)
       THEN [type |-> S.testing, importance |-> 60]
       ELSE IF includes(lowerTool, S.search) \/ includes(lowerTool, S.web_)
       THEN [type |-> S.research, importance |-> 40]
       ELSE IF includes(lowerTool, S.read)
       THEN [type |-> S.exploration, importance |-> 30]
       ELSE [type |-> S.tool_use, importance |-> 50]

(***************************************************************************)
(* The worker's HTTP handlers (worker/server.ts), each as the database it   *)
(* leaves and the exchange it ends with: [db, resp].  A handler that throws  *)
(* answers 500.                                                             *)
(***************************************************************************)
\* parseInt(s, 10) of a query-string value: None stands for NaN.
RECURSIVE parseDigits(_, _)
parseDigits(s, acc) ==
    IF s = <<>> \/ s[1] \notin DigitChars THEN acc
    ELSE parseDigits(Tail(s),
                     acc * 10 + (CHOOSE d \in 0..9 : ToString(d) = s[1]))

parseInt10(s) ==
    IF s # <<>> /\ s[1] = "-"
    THEN IF Len(s) < 2 \/ s[2] \notin DigitChars
         THEN None
         ELSE Some(0 - parseDigits(Tail(s), 0))
    ELSE IF s = <<>> \/ s[1] \notin DigitChars THEN None ELSE Some(parseDigits(s, 0))

\* POST /api/sessions
postSessions(db, session_key, project_path, t) ==
    LET r == createSession(db, session_key, project_path, t)
    IN [db |-> r.db,
        resp |-> IF r.ok
                 THEN [op |-> "POST /api/sessions", status |-> 200,
                       session |-> Val(r.row)]
                 ELSE [op |-> "POST /api/sessions", status |-> 500]]

\* POST /api/hooks/session-start
hookSessionStart(db, session_key, project_path, tie, t) ==
    LET r == createSession(db, session_key, project_path, t)
    IN [db |-> r.db,
        resp |-> IF r.ok
                 THEN [op |-> "POST /api/hooks/session-start", status |-> 200,
                       session |-> Val(r.row),
                       context |-> getContextForInjection(r.db, project_path,
                                        Some(DefaultMaxTokens), None, tie)]
                 ELSE [op |-> "POST /api/hooks/session-start", status |-> 500]]

\* POST /api/sessions/:key/end
postSessionEnd(db, key, summary, t) ==
    [db |-> endSession(db, key, summary, t),
     resp |-> [op |-> "POST /api/sessions/:key/end", status |-> 200,
               session_key |-> key, success |-> TRUE]]

\* POST /api/hooks/session-end
hookSessionEnd(db, session_key, summary, t) ==
    [db |-> endSession(db, session_key, summary, t),
     resp |-> [op |-> "POST /api/hooks/session-end", status |-> 200,
               session_key |-> session_key, success |-> TRUE]]

\* Mutant of getOrCreateSession: a known key gets the newest session, not its own.
getOrCreateSession_Newest(db, session_key, t) ==
    IF getSession(db, session_key) # None
    THEN [ok |-> TRUE, db |-> db, row |-> Some(db.sessions[Len(db.sessions)])]
    ELSE createSession(db, session_key, None, t)

\* "Get or create session" of the two ingestion handlers.
getOrCreateSession(db, session_key, t) ==
    IF getSession(db, session_key) # None
    THEN [ok |-> TRUE, db |-> db, row |-> getSession(db, session_key)]
    ELSE createSession(db, session_key, None, t)

\* POST /api/observations: body is the request body.
postObservations(db, body, t) ==
    LET s == getOrCreateSession(db, body.session_key, t)
        r == createObservation(s.db,
                 [session_id |-> Val(s.row).id,
                  type |-> body.type,
                  tool_name |-> body.tool_name,
                  input |-> body.input,
                  output |-> body.output,
                  summary |-> body.summary,
                  tokens |-> body.tokens,
                  importance |-> body.importance], t)
    IN [db |-> r.db,
        resp |-> IF r.ok
                 THEN [op |-> "POST /api/observations", status |-> 200,
                       session_key |-> body.session_key, observation |-> Val(r.row)]
                 ELSE [op |-> "POST /api/observations", status |-> 500]]

\* POST /api/hooks/tool-result: body.type and body.importance are optional.
hookToolResult(db, body, t) ==
    LET s == getOrCreateSession(db, body.session_key, t)
        obsType == IF OrNullStr(body.type) # None
                   THEN Val(body.type)
                   ELSE classifyObservation(body.tool_name, body.input, body.output)
        obsImportance == IF body.importance # None
                         THEN Val(body.importance)
                         ELSE Val(calculateImportance(obsType, body.tool_name,
                                                      body.input, body.output))
        r == createObservation(s.db,
                 [session_id |-> Val(s.row).id,
                  type |-> obsType,
                  tool_name |-> Some(body.tool_name),
                  input |-> Some(truncateForStorage(body.input, InputMaxLength)),
                  output |-> Some(truncateForStorage(body.output, OutputMaxLength)),
                  summary |-> None,
                  tokens |-> None,
                  importance |-> Some(obsImportance)], t)
    IN [db |-> r.db,
        resp |-> IF r.ok
                 THEN [op |-> "POST /api/hooks/tool-result", status |-> 200,
                       session_key |-> body.session_key, observation |-> Val(r.row)]
                 ELSE [op |-> "POST /api/hooks/tool-result", status |-> 500]]

\* POST /api/search without its try/catch: the exception of db.search
\* reaches the server, which answers 500.
postSearch_NoCatch(db, query, type, since, limit) ==
    IF QueryParses(query)
    THEN { [op |-> "POST /api/search", status |-> 200, query |-> query,
            type |-> type, since |-> since, limit |-> limit,
            results |-> r, count |-> Cardinality(r), error |-> FALSE] :
           r \in searchResults(db, query, type, since, limit) }
    ELSE { [op |-> "POST /api/search", status |-> 500] }

\* POST /api/search: the responses it can send (one per result set the bm25
\* order can leave under LIMIT); a query that does not parse makes
\* db.search throw, which the handler catches.
postSearch(db, query, type, since, limit) ==
    IF QueryParses(query)
    THEN { [op |-> "POST /api/search", status |-> 200, query |-> query,
            type |-> type, since |-> since, limit |-> limit,
            results |-> r, count |-> Cardinality(r), error |-> FALSE] :
           r \in searchResults(db, query, type, since, limit) }
    ELSE { [op |-> "POST /api/search", status |-> 200, query |-> query,
            type |-> type, since |-> since, limit |-> limit,
            results |-> {}, count |-> 0, error |-> TRUE] }

\* GET /api/context: max_tokens is the query-string value, None when absent.
\* String(n) of a natural number.
RECURSIVE toString10(_)
toString10(n) ==
    IF n < 10 THEN <<ToString(n)>> ELSE Append(toString10(n \div 10), ToString(n % 10))

\* new Date(created_at).toLocaleDateString(): the day, which the model reads
\* off the clock and writes in decimal.
toLocaleDateString(created_at) == toString10(created_at)

\* `[#${obs.id} ${date}] ${summary}` with
\* summary = obs.summary || `${obs.type}: ${obs.tool_name || 'unknown'}`
contextLine(obs) ==
    LET date == toLocaleDateString(obs.created_at)
        tool == IF OrNullStr(obs.tool_name) # None
                THEN Val(obs.tool_name)
                ELSE <<"u", "n", "k", "n", "o", "w", "n">>
        summary == IF OrNullStr(obs.summary) # None
                   THEN Val(obs.summary)
                   ELSE obs.type \o <<":", " ">> \o tool
    IN <<"[", "#">> \o toString10(obs.id) \o <<" ">> \o date \o <<"]", " ">> \o summary

\* lines.slice(lo - 1, hi).join('\n'), halving the range.
RECURSIVE joinRange(_, _, _)
joinRange(lines, lo, hi) ==
    IF lo > hi THEN <<>>
    ELSE IF lo = hi THEN lines[lo]
    ELSE LET mid == (lo + hi) \div 2
         IN joinRange(lines, lo, mid) \o <<"\n">> \o joinRange(lines, mid + 1, hi)

\* lines.join('\n')
joinLines(lines) == joinRange(lines, 1, Len(lines))

getContext(db, project_path, max_tokens, tie) ==
    LET maxTokens == IF OrNullStr(max_tokens) # None
                     THEN parseInt10(Val(max_tokens))
                     ELSE None
        result == getContextForInjection(db, project_path, maxTokens, None, tie)
        contextLines == [k \in 1..Len(result.observations) |->
                            contextLine(db.observations[result.observations[k]])]
    IN [op |-> "GET /api/context", status |-> 200,
        projectPath |-> project_path, maxTokens |-> maxTokens,
        includeTypes |-> None, tie |-> tie,
        observations |-> result.observations,
        totalTokens |-> result.totalTokens,
        contextText |-> joinLines(contextLines)]

\* A direct call of MemoryDatabase.getContextForInjection(options).
dbGetContextForInjection(db, projectPath, maxTokens, includeTypes, tie) ==
    LET result == getContextForInjection(db, projectPath, maxTokens, includeTypes, tie)
    IN [op |-> "getContextForInjection", status |-> 200,
        projectPath |-> projectPath, maxTokens |-> maxTokens,
        includeTypes |-> includeTypes, tie |-> tie,
        observations |-> result.observations,
        totalTokens |-> result.totalTokens]

(***************************************************************************)
(* The requests the callers of the model send.                              *)
(***************************************************************************)
\* A body of POST /api/observations, as memory_store and auto-capture send it.
ObsBody(key, type, summary, tokens, importance) ==
    [session_key |-> key, type |-> type, tool_name |-> Some(S_memory_store),
     input |-> summary, output |-> Some(S_Manually_stored), summary |-> summary,
     tokens |-> tokens, importance |-> importance]

\* A body of POST /api/hooks/tool-result.
ToolBody(key, tool, input, output, type, importance) ==
    [session_key |-> key, tool_name |-> tool, input |-> input, output |-> output,
     type |-> type, importance |-> importance]

\* The ingestion requests of Spec: one with a caller-supplied importance (1.5)
\* and one the worker classifies itself.
ObsBodies ==
    { ObsBody("s1", S.bugfix, Some(Text.fix_null_pointer), None, Some(150)),
      ObsBody("s2", S.decision, Some(Text.use_sqlite), Some(40), None) }

ToolBodies ==
    { ToolBody("s2", Text.Write, Text.fix_null_pointer, Text.fixed_tests_passed, None, None) }

\* Requests of POST /api/search.
SearchQueries == {S.fix, Text.null_pointer, Text.tests, Text.bad_query, S_empty}

SearchTypes == {None, Some(S.bugfix)}

SearchSince == {None, Some(MaxTime)}

SearchLimits == {None, Some(1)}

\* Requests of GET /api/context: max_tokens as it stands in the query string.


MaxTokensParams == {None, Some(Text.n0), Some(Text.n100)}

TieOrders == {"rowid_asc", "rowid_desc"}

(***************************************************************************)
(* Actions: one per request, and the clock.                                 *)
(***************************************************************************)
Init ==
    /\ sessions = <<>>
    /\ observations = <<>>
    /\ observations_fts = <<>>
    /\ now = 1
    /\ resp = [op |-> "none", status |-> 0]
    /\ endApplied = {}
    /\ register(DefaultConfig)

\* CURRENT_TIMESTAMP advances.
Tick ==
    /\ now < MaxTime
    /\ now' = now + 1
    /\ UNCHANGED <<sessions, observations, observations_fts, resp, endApplied,
                     cfg, currentSessionKey, workerAvailable>>

Answer(r) ==
    /\ SetDB(r.db)
    /\ resp' = r.resp

\* The ids of the sessions an end request for key updates.
SessionsOfKey(key) ==
    { i \in 1..Len(sessions) : sessions[i].session_key = key }

PostSessions(key, pp) ==
    /\ Answer(postSessions(DB, key, pp, now))
    /\ UNCHANGED <<now, endApplied, cfg, currentSessionKey, workerAvailable>>

HookSessionStart(key, pp, tie) ==
    /\ Answer(hookSessionStart(DB, key, pp, tie, now))
    /\ UNCHANGED <<now, endApplied, cfg, currentSessionKey, workerAvailable>>

PostSessionEnd(key, summary) ==
    /\ Answer(postSessionEnd(DB, key, summary, now))
    /\ endApplied' = endApplied \cup SessionsOfKey(key)
    /\ UNCHANGED <<now, cfg, currentSessionKey, workerAvailable>>

HookSessionEnd(key, summary) ==
    /\ Answer(hookSessionEnd(DB, key, summary, now))
    /\ endApplied' = endApplied \cup SessionsOfKey(key)
    /\ UNCHANGED <<now, cfg, currentSessionKey, workerAvailable>>

PostObservations(body) ==
    /\ Len(observations) < MaxObs
    /\ Answer(postObservations(DB, body, now))
    /\ UNCHANGED <<now, endApplied, cfg, currentSessionKey, workerAvailable>>

HookToolResult(body) ==
    /\ Len(observations) < MaxObs
    /\ Answer(hookToolResult(DB, body, now))
    /\ UNCHANGED <<now, endApplied, cfg, currentSessionKey, workerAvailable>>

PostSearch(query, type, since, limit) ==
    /\ resp' \in postSearch(DB, query, type, since, limit)
    /\ UNCHANGED <<sessions, observations, observations_fts, now, endApplied, cfg, currentSessionKey, workerAvailable>>

GetContext(pp, max_tokens, tie) ==
    /\ resp' = getContext(DB, pp, max_tokens, tie)
    /\ UNCHANGED <<sessions, observations, observations_fts, now, endApplied, cfg, currentSessionKey, workerAvailable>>

DbGetContextForInjection(pp, maxTokens, includeTypes, tie) ==
    /\ resp' = dbGetContextForInjection(DB, pp, maxTokens, includeTypes, tie)
    /\ UNCHANGED <<sessions, observations, observations_fts, now, endApplied, cfg, currentSessionKey, workerAvailable>>

Next ==
    \/ Tick
    \/ \E rq \in SessionRequests : PostSessions(rq[1], rq[2])
    \/ \E rq \in SessionRequests, tie \in TieOrders :
          HookSessionStart(rq[1], rq[2], tie)
    \/ \E k \in SessionKeys, sm \in SummaryOpts : PostSessionEnd(k, sm)
    \/ \E k \in SessionKeys, sm \in SummaryOpts : HookSessionEnd(k, sm)
    \/ \E b \in ObsBodies : PostObservations(b)
    \/ \E b \in ToolBodies : HookToolResult(b)

Spec == Init /\ [][Next]_vars

(***************************************************************************)
(* Properties of the store under Spec.                                      *)
(***************************************************************************)
CreateOps == {"POST /api/sessions", "POST /api/hooks/session-start"}

IngestOps == {"POST /api/observations", "POST /api/hooks/tool-result"}

\* C1: every stored observation's importance lies in [0.0, 1.0], whatever
\* importance the caller supplied.
C1_ImportanceInRange ==
    \A i \in 1..Len(observations) :
        observations[i].importance >= 0 /\ observations[i].importance <= 100

\* C4: a create request (POST /api/sessions or the session-start hook) is
\* answered with a session, also when the session_key already has one: it
\* never fails.
C4_CreateIdempotent ==
    resp.op \in CreateOps => resp.status = 200

\* C5: once a session's ended_at is set, no step changes its ended_at or its
\* summary.
C5_ClosedOnce ==
    [][\A i \in 1..Len(sessions) :
          sessions[i].ended_at # None =>
              /\ sessions'[i].ended_at = sessions[i].ended_at
              /\ sessions'[i].summary = sessions[i].summary]_vars

\* C6: each session_key has at most one session, and a session's ended_at is
\* null exactly when no end operation has been applied to it.
C6_OneSessionPerKeyEndedIffEnd ==
    /\ \A i, j \in 1..Len(sessions) :
          sessions[i].session_key = sessions[j].session_key => i = j
    /\ \A i \in 1..Len(sessions) :
          sessions[i].id = i /\ (sessions[i].ended_at = None <=> i \notin endApplied)

\* C6 witness: a session that was ended and then had an observation ingested,
\* beside a session that is still open.
C6_Witness ==
    /\ \E i \in 1..Len(sessions) : \E k \in 1..Len(observations) :
          /\ sessions[i].ended_at # None
          /\ observations[k].session_id = i
          /\ observations[k].created_at > Val(sessions[i].ended_at)
    /\ \E j \in 1..Len(sessions) : sessions[j].ended_at = None

\* C7: every observation's session_id references an existing session, and an
\* ingestion leaves exactly one session for its session_key, the one the new
\* observation is attached to.
C7_ObservationSessionExists ==
    /\ \A k \in 1..Len(observations) :
          observations[k].id = k /\ observations[k].session_id \in 1..Len(sessions)
    /\ (resp.op \in IngestOps /\ resp.status = 200) =>
          /\ Cardinality(SessionsOfKey(resp.session_key)) = 1
          /\ resp.observation.session_id \in SessionsOfKey(resp.session_key)
          /\ observations[Len(observations)] = resp.observation

\* C7 witness: two observations of the only session, which the first of the
\* two ingestions created and the second reused.
C7_Witness ==
    /\ resp.op \in IngestOps
    /\ Len(observations) >= 2
    /\ Len(sessions) = 1
    /\ observations[1].session_id = observations[2].session_id

(***************************************************************************)
(* SpecSearch: ingestion and search over the store it builds.               *)
(***************************************************************************)
\* The search requests: every combination of the fields above, and the two
\* requests with a type "" and with a limit 0.
SearchRequests ==
    (SearchQueries \X SearchTypes \X SearchSince \X SearchLimits)
        \cup {<<S.fix, Some(S_empty), None, None>>, <<S.fix, None, None, Some(0)>>}

NextSearch ==
    \/ Tick
    \/ \E b \in ObsBodies : PostObservations(b)
    \/ \E b \in ToolBodies : HookToolResult(b)
    \/ \E rq \in SearchRequests : PostSearch(rq[1], rq[2], rq[3], rq[4])

SpecSearch == Init /\ [][NextSearch]_vars

\* The observations a search request asks for, read off the observation rows:
\* every term of the query is a token of one of the row's five text columns,
\* and the row passes the type and since filters given (a type "" is no
\* filter).
RowsAskedFor(query, type, since) ==
    { i \in 1..Len(observations) :
        /\ QueryTerms(query) \subseteq FtsDoc(observations[i])
        /\ (OrNullStr(type) = None \/ observations[i].type = Val(type))
        /\ (since = None \/ observations[i].created_at >= Val(since)) }

\* C8: the index holds exactly one entry per observation row, the tokens of
\* that row's text columns; and a search that succeeds returns rows its
\* request asks for, all of them when the limit leaves room.
C8_IndexIsProjection ==
    /\ Len(observations_fts) = Len(observations)
    /\ \A i \in 1..Len(observations) : observations_fts[i] = FtsDoc(observations[i])
    /\ (resp.op = "POST /api/search" /\ ~resp.error) =>
          LET asked == RowsAskedFor(resp.query, resp.type, resp.since)
          IN /\ resp.results \subseteq asked
             /\ Cardinality(asked) <= searchLimit(resp.limit) => resp.results = asked

\* C8 witness: a search for a word of the newest observation's output returns
\* that observation, beside an older one.
C8_Witness ==
    /\ resp.op = "POST /api/search"
    /\ Len(observations) >= 2
    /\ resp.results = {1, Len(observations)}
    /\ resp.query = Text.tests

(***************************************************************************)
(* SpecContext: context injection over stores built by ingestion.           *)
(***************************************************************************)
\* At most MaxCtxObs observations in a store of SpecContext, the bulk store
\* apart.
MaxCtxObs == 3

\* The observations ingested: token costs 60, 100 (no count stored) and 40 in
\* falling importance, and one below the importance floor.
CtxBodies ==
    { ObsBody("s1", S.architecture, Some(Text.use_sqlite), Some(60), Some(95)),
      ObsBody("s2", S.bugfix, Some(Text.fix_null_pointer), None, Some(90)),
      ObsBody("s1", S.decision, Some(Text.use_sqlite), Some(40), Some(80)),
      ObsBody("s2", S.decision, Some(Text.ok), Some(40), Some(30)) }

\* An ingestion is a body and the time it arrives at, early or late.
CtxItems == CtxBodies \X {1, 2}

CtxItemSeqs ==
    { q \in UNION { [1..n -> CtxItems] : n \in 0..MaxCtxObs } :
        \A i \in 1..(Len(q) - 1) : q[i][2] <= q[i + 1][2] }

\* The database after the create requests of SessionRequests, at time 1.
SessionsDB ==
    postSessions(postSessions(EmptyDB, "s1", Some("p1"), 1).db, "s2", None, 1).db

\* The database after POST /api/observations of items[k + 1 ..].
RECURSIVE ingestAll(_, _, _)
ingestAll(db, items, k) ==
    IF k >= Len(items) THEN db
    ELSE ingestAll(postObservations(db, items[k + 1][1], items[k + 1][2]).db, items, k + 1)

\* The store after one observation more than the candidate query returns, of
\* one token each, all ingested for s1 at time 1: the rows and index entries
\* the inserts leave.
BulkRow(i) ==
    observationRow([session_id |-> 1] @@ ObsBody("s1", S.decision, Some(Text.ok), Some(1), Some(80)),
                   i, 1)

BulkDB ==
    [sessions |-> SessionsDB.sessions,
     observations |-> [i \in 1..(CandidateLimit + 1) |-> BulkRow(i)],
     fts |-> [i \in 1..(CandidateLimit + 1) |-> FtsDoc(BulkRow(i))]]

\* The stores the tool-result hook leaves after one tool result.
ScenarioStores == { hookToolResult(SessionsDB, body, 1).db : body \in ToolBodies }

ContextStores ==
    { ingestAll(SessionsDB, items, 0) : items \in CtxItemSeqs }
        \cup {BulkDB} \cup ScenarioStores

InitContext ==
    \E db \in ContextStores :
        /\ sessions = db.sessions
        /\ observations = db.observations
        /\ observations_fts = db.fts
        /\ now = MaxTime
        /\ resp = [op |-> "none", status |-> 0]
        /\ endApplied = {}
        /\ register(DefaultConfig)

\* options.maxTokens and options.includeTypes of the direct calls.
MaxTokensOpts == {None, Some(0), Some(100)}

IncludeTypesOpts == {None, Some({S.bugfix})}

NextContext ==
    \/ \E pp \in ProjectPaths \cup {Some("")}, mt \in MaxTokensParams, tie \in TieOrders :
          GetContext(pp, mt, tie)
    \/ \E pp \in ProjectPaths, mt \in MaxTokensOpts, it \in IncludeTypesOpts,
          tie \in TieOrders : DbGetContextForInjection(pp, mt, it, tie)

SpecContext == InitContext /\ [][NextContext]_vars

(***************************************************************************)
(* Properties of context injection under SpecContext.                       *)
(***************************************************************************)
ContextOps == {"GET /api/context", "getContextForInjection"}

\* The token cost of observation i: its stored tokens, else 100.
CostOf(i) ==
    IF observations[i].tokens = None THEN 100 ELSE Val(observations[i].tokens)

\* The cost of the first n observations of a list of ids.
RECURSIVE CostOfFirst(_, _)
CostOfFirst(ids, n) ==
    IF n = 0 THEN 0 ELSE CostOfFirst(ids, n - 1) + CostOf(ids[n])

\* C2: totalTokens is the sum of the costs of the observations returned, and
\* it never exceeds the maxTokens the caller gave (4000 when the caller gave
\* none), for every maxTokens >= 0.
C2_TotalWithinMaxTokens ==
    resp.op \in ContextOps =>
        /\ resp.totalTokens = CostOfFirst(resp.observations, Len(resp.observations))
        /\ resp.maxTokens = None => resp.totalTokens <= 4000
        /\ (resp.maxTokens # None /\ Val(resp.maxTokens) >= 0) =>
              resp.totalTokens <= Val(resp.maxTokens)

\* The ceiling the selection works with: maxTokens, 4000 standing in for a
\* maxTokens that is absent or 0.
CeilingOf(maxTokens) ==
    IF maxTokens = None \/ maxTokens = Some(0) THEN 4000 ELSE Val(maxTokens)

ClassifyTools == {Text.Write, S.edit, S.exec, S.bash, Text.Read, Text.web_search, Text.grep}

ClassifyInputs ==
    {S_empty, Text.please_fix_the_bug, Text.fix_null_pointer, Text.git_status,
     Text.npm_install, Text.run_test, Text.ls}

ClassifyOutputs ==
    {S_empty, S.fixed, Text.fixed_tests_passed, S.resolved, S.error, S.failed,
     S.success, S.completed, Text.ok, Text.Fixed_the_error}

\* A text the caller may leave out: None is undefined or null.
ClassifyInputOpts == {None} \cup { Some(text) : text \in ClassifyInputs }

ClassifyOutputOpts == {None} \cup { Some(text) : text \in ClassifyOutputs }

\* The types calculateImportance is called with when the request gives one:
\* types of the table, one that is not in it, and inherited keys.
ClassifyTypes ==
    {S.bugfix, S.decision, <<"r", "o", "u", "t", "i", "n", "e">>} \cup ObjectPrototypeKeys

\* (input || "")
orEmpty(o) == IF o = None THEN S_empty ELSE Val(o)

\* resp holds the tool result, what each classifier made of it (None before
\* it ran), what calculateImportance returned for a given type, and the
\* functions that threw.
InitClassify ==
    /\ sessions = <<>>
    /\ observations = <<>>
    /\ observations_fts = <<>>
    /\ now = 1
    /\ endApplied = {}
    /\ register(DefaultConfig)
    /\ \E tool \in ClassifyTools, input \in ClassifyInputOpts, output \in ClassifyOutputOpts :
          resp = [op |-> "classify", status |-> 0, toolName |-> tool,
                  input |-> input, output |-> output,
                  plugin |-> None, worker |-> None, calc |-> None, threw |-> {}]

\* The plugin classifies the tool result (agent_end).
ClassifyToolResult ==
    /\ resp.plugin = None
    /\ resp' = [resp EXCEPT !.plugin =
                   Some(classifyToolResult(resp.toolName, orEmpty(resp.input),
                                           orEmpty(resp.output)))]
    /\ UNCHANGED <<sessions, observations, observations_fts, now, endApplied, cfg, currentSessionKey, workerAvailable>>

\* The worker classifies it (tool-result hook, type and importance omitted).
\* input.toLowerCase() and output.toLowerCase() throw a TypeError on an
\* absent text.
ClassifyObservation ==
    /\ resp.worker = None
    /\ "classifyObservation" \notin resp.threw
    /\ resp' = IF resp.input = None \/ resp.output = None
               THEN [resp EXCEPT !.threw = @ \cup {"classifyObservation"}]
               ELSE [resp EXCEPT !.worker =
                       LET obsType == classifyObservation(resp.toolName, Val(resp.input),
                                                          Val(resp.output))
                       IN Some([type |-> obsType,
                                importance |->
                                    Val(calculateImportance(obsType, resp.toolName,
                                                            Val(resp.input),
                                                            Val(resp.output)))])]
    /\ UNCHANGED <<sessions, observations, observations_fts, now, endApplied, cfg, currentSessionKey, workerAvailable>>

\* The worker scores it for the type the request gives (tool-result hook with
\* type, importance omitted).  Only the output is read.
CalculateImportance(type) ==
    /\ resp.calc = None
    /\ "calculateImportance" \notin resp.threw
    /\ resp' = IF resp.output = None
               THEN [resp EXCEPT !.threw = @ \cup {"calculateImportance"}]
               ELSE [resp EXCEPT !.calc =
                       Some([type |-> type,
                             importance |->
                                 calculateImportance(type, resp.toolName,
                                                     orEmpty(resp.input),
                                                     Val(resp.output))])]
    /\ UNCHANGED <<sessions, observations, observations_fts, now, endApplied, cfg, currentSessionKey, workerAvailable>>

NextClassify ==
    \/ ClassifyToolResult
    \/ ClassifyObservation
    \/ \E type \in ClassifyTypes : CalculateImportance(type)

SpecClassify == InitClassify /\ [][NextClassify]_vars

\* Rule 1 of the classification: the input mentions "fix", or the output
\* mentions "fixed", "resolved" or "error" (case-insensitively).
Mentions(text, word) == includes(toLowerCase(text), word)

FixSignal(input, output) ==
    \/ Mentions(input, S.fix)
    \/ Mentions(output, S.fixed)
    \/ Mentions(output, S.resolved)
    \/ Mentions(output, S.error)

\* C9: whatever the tool, a tool result with the fix signal is classified
\* bugfix with base importance 0.9, by the plugin and by the worker.
C9_FixSignalFirst ==
    (resp.op = "classify" /\ FixSignal(orEmpty(resp.input), orEmpty(resp.output))) =>
        /\ resp.plugin # None =>
              Val(resp.plugin) = [type |-> S.bugfix, importance |-> 90]
        /\ resp.worker # None =>
              /\ Val(resp.worker).type = S.bugfix
              /\ typeImportance(Val(resp.worker).type) = 90

\* C10: for a write/edit tool whose input mentions "fix" or whose output
\* mentions "fixed", the plugin and the worker both answer bugfix with the
\* same importance, 0.9.
C10_ClassifiersAgree ==
    ( /\ resp.op = "classify"
      /\ resp.plugin # None
      /\ resp.worker # None
      /\ Mentions(resp.toolName, S.write) \/ Mentions(resp.toolName, S.edit)
      /\ Mentions(orEmpty(resp.input), S.fix) \/ Mentions(orEmpty(resp.output), S.fixed) ) =>
        /\ Val(resp.plugin).type = S.bugfix
        /\ Val(resp.worker).type = S.bugfix
        /\ Val(resp.plugin).importance = Val(resp.worker).importance
        /\ Val(resp.plugin).importance = 90

\* The ordered rule table of the classification: the first rule whose
\* condition holds gives the type and the base importance.
RuleTable(toolName, input, output) ==
    LET tool(word) == Mentions(toolName, word)
    IN IF FixSignal(input, output)
       THEN [type |-> S.bugfix, importance |-> 90]
       ELSE IF tool(S.write) \/ tool(S.edit)
       THEN [type |-> S.code_change, importance |-> 70]
       ELSE IF (tool(S.exec) \/ tool(S.bash)) /\ Mentions(input, S.git)
       THEN [type |-> S.git_operation, importance |-> 60]
       ELSE IF (tool(S.exec) \/ tool(S.bash))
               /\ (Mentions(input, S.npm) \/ Mentions(input, S.yarn))
       THEN [type |-> S.dependency, importance |-> 50]
       ELSE IF \/ Mentions(input, S.test) \/ Mentions(output, S.passed)
               \/ Mentions(output, S.failed)
       THEN [type |-> S.testing, importance |-> 60]
       ELSE IF tool(S.search) \/ tool(S.web_)
       THEN [type |-> S.research, importance |-> 40]
       ELSE IF tool(S.read)
       THEN [type |-> S.exploration, importance |-> 30]
       ELSE [type |-> S.tool_use, importance |-> 50]

\* C11: for every tool result the classified type and base importance are
\* those of the first matching rule of the table, in the plugin and in the
\* worker.
C11_FirstMatchingRule ==
    resp.op = "classify" =>
        LET rule == RuleTable(resp.toolName, orEmpty(resp.input), orEmpty(resp.output))
        IN /\ resp.plugin # None => Val(resp.plugin) = rule
           /\ resp.worker # None =>
                 /\ Val(resp.worker).type = rule.type
                 /\ typeImportance(Val(resp.worker).type) = rule.importance

\* The importance after the two adjustments, clamped once after both are
\* summed, in hundredths.
Adjusted(base, output) ==
    LET sum == base
               + (IF Mentions(output, S.error) \/ Mentions(output, S.failed) THEN 10 ELSE 0)
               + (IF Mentions(output, S.success) \/ Mentions(output, S.completed) THEN 5 ELSE 0)
    IN IF sum > 100 THEN 100 ELSE sum

\* C12: the final importance of an auto-classified observation is its type's
\* base importance plus 0.1 for an error signal plus 0.05 for a success
\* signal in the output, clamped to 1.0, in the plugin and in the worker.
C12_AdjustedImportance ==
    resp.op = "classify" =>
        /\ resp.plugin # None =>
              Val(resp.plugin).importance
                  = Adjusted(typeImportance(Val(resp.plugin).type), orEmpty(resp.output))
        /\ resp.worker # None =>
              Val(resp.worker).importance
                  = Adjusted(typeImportance(Val(resp.worker).type), orEmpty(resp.output))

\* C13: every importance the classifiers produce lies in [0.0, 1.0]: the
\* plugin's, the worker's, and what calculateImportance returns for any
\* type, in the table or not.
C13_ClassifierImportanceInRange ==
    resp.op = "classify" =>
        /\ resp.plugin # None => Val(resp.plugin).importance \in 0..100
        /\ resp.worker # None => Val(resp.worker).importance \in 0..100
        /\ resp.calc # None =>
              /\ Val(resp.calc).importance # None
              /\ Val(Val(resp.calc).importance) \in 0..100

(***************************************************************************)
(* The end-to-end scenario: a fix written with the Write tool.              *)
(***************************************************************************)
\* C14: the tool-result hook, given neither type nor importance, stores the
\* result of tool "Write" with input "fix null pointer" and output
\* "fixed, tests passed" as a bugfix of importance exactly 1.0.
C14_ScenarioStoredAtOne ==
    ( /\ resp.op = "POST /api/hooks/tool-result"
      /\ resp.status = 200
      /\ resp.observation.tool_name = Some(Text.Write)
      /\ resp.observation.input = Some(Text.fix_null_pointer)
      /\ resp.observation.output = Some(Text.fixed_tests_passed) ) =>
        /\ resp.observation.type = S.bugfix
        /\ resp.observation.importance = 100
        /\ observations[Len(observations)] = resp.observation

\* The line of the context text for observation i: "[#<id> <date>] " and then
\* the stored summary, or the output text when no summary is stored.
SummaryOrOutputLine(i) ==
    LET obs == observations[i]
    IN <<"[", "#">> \o toString10(obs.id) \o <<" ">>
           \o toLocaleDateString(obs.created_at) \o <<"]", " ">>
           \o (IF obs.summary # None THEN Val(obs.summary) ELSE orEmpty(obs.output))

\* C15: context injection with the default types and the default budget of
\* 4000 selects the observation the scenario stored into an empty store, and
\* the context text is one line per selected observation, "[#<id> <date>] "
\* followed by its summary or else its output, joined by newlines in the
\* order of selection.
C15_ScenarioContextText ==
    (resp.op = "GET /api/context" /\ resp.maxTokens = None /\ resp.projectPath = None) =>
        /\ resp.contextText
              = joinLines([k \in 1..Len(resp.observations) |->
                              SummaryOrOutputLine(resp.observations[k])])
        /\ ( /\ Len(observations) = 1
             /\ observations[1].tool_name = Some(Text.Write)
             /\ observations[1].output = Some(Text.fixed_tests_passed) ) =>
               resp.observations = <<1>>

\* C16: the classifiers are total: whatever the tool name, and whether input
\* and output are texts, empty or absent, no function of either variant
\* throws.
C16_ClassifierTotal ==
    resp.op = "classify" => resp.threw = {}

\* C17: every observation returned has a type of includeTypes (decision,
\* bugfix and architecture when none are given) and importance >= 0.5, and,
\* when a project path is given (a non-empty one), is of a session of that
\* project.
C17_OnlyFilteredRowsInjected ==
    resp.op \in ContextOps =>
        \A k \in 1..Len(resp.observations) :
            LET obs == observations[resp.observations[k]]
            IN /\ obs.type \in (IF resp.includeTypes = None
                                THEN {S.decision, S.bugfix, S.architecture}
                                ELSE Val(resp.includeTypes))
               /\ obs.importance >= 50
               /\ resp.projectPath \notin {None, Some("")} =>
                     \E s \in 1..Len(sessions) :
                        /\ sessions[s].id = obs.session_id
                        /\ sessions[s].project_path = resp.projectPath

\* C17 witness: a request for project p1 is answered with an observation of
\* that project while the store also holds an observation of another
\* session, of an included type and importance, and one of importance below
\* 0.5.
C17_Witness ==
    /\ resp.op \in ContextOps
    /\ resp.projectPath = Some("p1")
    /\ resp.observations # <<>>
    /\ \E i \in 1..Len(observations) :
          /\ observations[i].session_id = 2
          /\ observations[i].type = S.bugfix
          /\ observations[i].importance >= 50
    /\ \E i \in 1..Len(observations) : observations[i].importance < 50

(***************************************************************************)
(* MemoryDatabase.getTimeline and POST /api/timeline.  In the stores of     *)
(* SpecTimeline the clock counts minutes.                                   *)
(***************************************************************************)
\* The minutes of the hour that datetime(t, '+N hours') adds N times.
MinutesPerHour == 60

\* The default of rangeHours (`rangeHours: number = 2`, `range_hours || 2`).
DefaultRangeHours == 2

\* SELECT * FROM observations WHERE id = ?
getObservation(db, id) ==
    IF id \in 1..Len(db.observations) THEN Some(db.observations[id]) ELSE None

\* ORDER BY created_at ASC: row a comes before row b; tie says which rowid
\* order the engine produced for rows of the same created_at.
timelineBefore(a, b, tie) ==
    \/ a.created_at < b.created_at
    \/ /\ a.created_at = b.created_at
       /\ IF tie = "rowid_asc" THEN a.id < b.id ELSE a.id > b.id

\* The ids of set ids in the order of the query.
timelineOrder(db, ids, tie) ==
    LET ranked == { <<Cardinality({ j \in ids :
                        timelineBefore(db.observations[j], db.observations[i], tie) }), i>> :
                    i \in ids }
    IN [k \in 1..Cardinality(ids) |-> (CHOOSE p \in ranked : p[1] = k - 1)[2]]

\* getTimeline with a window that leaves out its two ends.
getTimeline_OpenWindow(db, observationId, rangeHours, tie) ==
    LET observation == getObservation(db, observationId)
        hours == IF rangeHours = None THEN DefaultRangeHours ELSE Val(rangeHours)
    IN IF observation = None THEN <<>>
       ELSE timelineOrder(db,
                { i \in 1..Len(db.observations) :
                    /\ db.observations[i].created_at
                          > Val(observation).created_at - hours * MinutesPerHour
                    /\ db.observations[i].created_at
                          < Val(observation).created_at + hours * MinutesPerHour }
                    \cup {observationId},
                tie)

\* getTimeline without the check of the center: the window is taken around
\* the newest observation instead.
getTimeline_NoCenterCheck(db, observationId, rangeHours, tie) ==
    LET center == IF observationId \in 1..Len(db.observations)
                  THEN observationId
                  ELSE Len(db.observations)
        hours == IF rangeHours = None THEN DefaultRangeHours ELSE Val(rangeHours)
    IN timelineOrder(db,
           { i \in 1..Len(db.observations) :
               /\ db.observations[i].created_at
                     >= db.observations[center].created_at - hours * MinutesPerHour
               /\ db.observations[i].created_at
                     <= db.observations[center].created_at + hours * MinutesPerHour },
           tie)

\* The ids of the rows getTimeline(observationId, rangeHours) returns, in
\* order; rangeHours None is the argument left out.
getTimeline(db, observationId, rangeHours, tie) ==
    LET observation == getObservation(db, observationId)
        hours == IF rangeHours = None THEN DefaultRangeHours ELSE Val(rangeHours)
    IN IF observation = None THEN <<>>
       ELSE timelineOrder(db,
                { i \in 1..Len(db.observations) :
                    /\ db.observations[i].created_at
                          >= Val(observation).created_at - hours * MinutesPerHour
                    /\ db.observations[i].created_at
                          <= Val(observation).created_at + hours * MinutesPerHour },
                tie)

\* A direct call of MemoryDatabase.getTimeline.
dbGetTimeline(db, observationId, rangeHours, tie) ==
    [op |-> "getTimeline", status |-> 200,
     center_id |-> observationId,
     range_hours |-> IF rangeHours = None THEN DefaultRangeHours ELSE Val(rangeHours),
     observations |-> getTimeline(db, observationId, rangeHours, tie)]

\* POST /api/timeline: 400 when observation_id is missing or 0; range_hours
\* missing or 0 is 2.
postTimeline(db, observation_id, range_hours, tie) ==
    IF OrNullNum(observation_id) = None
    THEN [op |-> "POST /api/timeline", status |-> 400]
    ELSE LET hours == IF OrNullNum(range_hours) = None
                      THEN DefaultRangeHours
                      ELSE Val(range_hours)
         IN [op |-> "POST /api/timeline", status |-> 200,
             center_id |-> Val(observation_id),
             range_hours |-> hours,
             observations |-> getTimeline(db, Val(observation_id), Some(hours), tie)]

PostTimeline(observation_id, range_hours, tie) ==
    /\ resp' = postTimeline(DB, observation_id, range_hours, tie)
    /\ UNCHANGED <<sessions, observations, observations_fts, now, endApplied, cfg, currentSessionKey, workerAvailable>>

DbGetTimeline(observationId, rangeHours, tie) ==
    /\ resp' = dbGetTimeline(DB, observationId, rangeHours, tie)
    /\ UNCHANGED <<sessions, observations, observations_fts, now, endApplied, cfg, currentSessionKey, workerAvailable>>

(***************************************************************************)
(* SpecTimeline: timelines over stores built by ingestion.                  *)
(***************************************************************************)
\* At most MaxTimelineObs observations in a store of SpecTimeline.
MaxTimelineObs == 3

\* The minutes at which observations arrive: one hour, two hours and two
\* hours and a minute after the first.
TimelineTimes == {1, 61, 121, 122}

TimelineItemSeqs ==
    { q \in UNION { [1..n -> ObsBodies \X TimelineTimes] : n \in 0..MaxTimelineObs } :
        \A i \in 1..(Len(q) - 1) : q[i][2] <= q[i + 1][2] }

TimelineStores == { ingestAll(SessionsDB, items, 0) : items \in TimelineItemSeqs }

InitTimeline ==
    \E db \in TimelineStores :
        /\ sessions = db.sessions
        /\ observations = db.observations
        /\ observations_fts = db.fts
        /\ now = 122
        /\ resp = [op |-> "none", status |-> 0]
        /\ endApplied = {}
        /\ register(DefaultConfig)

\* range_hours / rangeHours of the requests: left out, 0 and 1.
RangeHoursOpts == {None, Some(0), Some(1)}

NextTimeline ==
    \/ \E id \in {None} \cup { Some(n) : n \in 0..(MaxTimelineObs + 1) },
          rh \in RangeHoursOpts, tie \in TieOrders : PostTimeline(id, rh, tie)
    \/ \E id \in 1..(MaxTimelineObs + 1), rh \in RangeHoursOpts, tie \in TieOrders :
          DbGetTimeline(id, rh, tie)

SpecTimeline == InitTimeline /\ [][NextTimeline]_vars

(***************************************************************************)
(* Properties of the timeline under SpecTimeline.                           *)
(***************************************************************************)
TimelineOps == {"getTimeline", "POST /api/timeline"}

\* C18: for an existing center the timeline is exactly the observations, of
\* any session, created within rangeHours hours of the center, both ends
\* included, each once, in ascending order of created_at; the center is
\* among them.
C18_TimelineIsInclusiveWindow ==
    ( /\ resp.op \in TimelineOps
      /\ resp.status = 200
      /\ resp.center_id \in 1..Len(observations) ) =>
        LET R == resp.observations
            center == observations[resp.center_id].created_at
            range == resp.range_hours * 60
            In == { R[k] : k \in 1..Len(R) }
        IN /\ In = { i \in 1..Len(observations) :
                       /\ observations[i].created_at >= center - range
                       /\ observations[i].created_at <= center + range }
           /\ Len(R) = Cardinality(In)
           /\ \A k, l \in 1..Len(R) :
                 k < l => observations[R[k]].created_at <= observations[R[l]].created_at
           /\ resp.center_id \in In

\* C18 witness: a timeline of two hours around the first observation that
\* holds an observation of the other session created exactly two hours
\* later and leaves out one created a minute after that.
C18_Witness ==
    /\ resp.op \in TimelineOps
    /\ resp.status = 200
    /\ resp.center_id = 1
    /\ resp.range_hours = 2
    /\ Len(observations) = 3
    /\ resp.observations = <<1, 2>>
    /\ observations[2].created_at = observations[1].created_at + 120
    /\ observations[3].created_at = observations[1].created_at + 121
    /\ observations[2].session_id # observations[1].session_id

\* C19: the rows of a timeline are strictly ascending by created_at.
C19_TimelineStrictlyAscending ==
    (resp.op \in TimelineOps /\ resp.status = 200) =>
        \A k \in 1..(Len(resp.observations) - 1) :
            observations[resp.observations[k]].created_at
                < observations[resp.observations[k + 1]].created_at

\* C20: a timeline asked for a center that is no observation is answered
\* with the empty list, not with an error, and the call leaves sessions,
\* observations and the index as they were.
C20_UnknownCenterIsEmpty ==
    [][( /\ resp'.op \in TimelineOps
         /\ resp'.op = "POST /api/timeline" => resp'.status # 400
         /\ resp'.center_id \notin 1..Len(observations) ) =>
           /\ resp'.status = 200
           /\ resp'.observations = <<>>
           /\ sessions' = sessions
           /\ observations' = observations
           /\ observations_fts' = observations_fts]_vars

\* C20 witness: the empty timeline answered for an id beyond the last
\* observation of a store that holds observations.
C20_Witness ==
    /\ resp.op \in TimelineOps
    /\ resp.status = 200
    /\ Len(observations) >= 2
    /\ resp.center_id > Len(observations)
    /\ resp.observations = <<>>

(***************************************************************************)
(* MemoryDatabase.getObservations and POST /api/observations/batch.         *)
(***************************************************************************)
\* ORDER BY created_at DESC: row a comes before row b; tie says which rowid
\* order the engine produced for rows of the same created_at.
batchBefore(a, b, tie) ==
    \/ a.created_at > b.created_at
    \/ /\ a.created_at = b.created_at
       /\ IF tie = "rowid_asc" THEN a.id < b.id ELSE a.id > b.id

\* getObservations that answers in the order of the list it was given, one
\* row per element that exists.
getObservations_InputOrder(db, ids, tie) ==
    SelectSeq(ids, LAMBDA i : i \in 1..Len(db.observations))

\* The ids of the rows getObservations(ids) returns, in order:
\* SELECT * FROM observations WHERE id IN (?, ...) ORDER BY created_at DESC.
getObservations(db, ids, tie) ==
    IF Len(ids) = 0 THEN <<>>
    ELSE LET in == { i \in 1..Len(db.observations) : \E k \in 1..Len(ids) : ids[k] = i }
             ranked == { <<Cardinality({ j \in in :
                              batchBefore(db.observations[j], db.observations[i], tie) }), i>> :
                         i \in in }
         IN [k \in 1..Cardinality(in) |-> (CHOOSE p \in ranked : p[1] = k - 1)[2]]

\* POST /api/observations/batch: ids is the body's field, None when the body
\* has none (`ids.length` then throws and the server answers 500).
postObservationsBatch(db, ids, tie) ==
    IF ids = None
    THEN [op |-> "POST /api/observations/batch", status |-> 500]
    ELSE [op |-> "POST /api/observations/batch", status |-> 200,
          ids |-> Val(ids),
          observations |-> getObservations(db, Val(ids), tie)]

PostObservationsBatch(ids, tie) ==
    /\ resp' = postObservationsBatch(DB, ids, tie)
    /\ UNCHANGED <<sessions, observations, observations_fts, now, endApplied, cfg, currentSessionKey, workerAvailable>>

(***************************************************************************)
(* SpecBatch: batch fetches over the stores of SpecTimeline.                *)
(***************************************************************************)
\* The id lists asked for: every list of at most two ids among three that can
\* exist and one (999) that never does, and two lists of three with a repeat.
BatchIdLists ==
    UNION { [1..n -> {1, 2, 3, 999}] : n \in 0..2 }
        \cup {<<2, 999, 2>>, <<3, 1, 3>>}

NextBatch ==
    \E ids \in {None} \cup { Some(l) : l \in BatchIdLists }, tie \in TieOrders :
        PostObservationsBatch(ids, tie)

SpecBatch == InitTimeline /\ [][NextBatch]_vars

\* C21: a batch fetch returns exactly the observations whose id is in the
\* list and exists, each once also when the list repeats an id, without an
\* error for the ids that do not exist, in descending order of created_at;
\* ids [1, 999] with only 1 existing give observation 1 alone, and the empty
\* list gives the empty list.
C21_BatchIsExistingIdsNewestFirst ==
    (resp.op = "POST /api/observations/batch" /\ resp.status # 500) =>
        LET R == resp.observations
            In == { R[k] : k \in 1..Len(R) }
        IN /\ resp.status = 200
           /\ In = { i \in 1..Len(observations) :
                       \E k \in 1..Len(resp.ids) : resp.ids[k] = i }
           /\ Len(R) = Cardinality(In)
           /\ \A k, l \in 1..Len(R) :
                 k < l => observations[R[k]].created_at >= observations[R[l]].created_at
           /\ (resp.ids = <<1, 999>> /\ Len(observations) >= 1) => R = <<1>>
           /\ resp.ids = <<>> => R = <<>>

\* C21 witness: ids [1, 2] answered newest first, that is as [2, 1].
C21_Witness ==
    /\ resp.op = "POST /api/observations/batch"
    /\ resp.status = 200
    /\ resp.ids = <<1, 2>>
    /\ resp.observations = <<2, 1>>
    /\ observations[2].created_at > observations[1].created_at

(***************************************************************************)
(* Properties of search under SpecSearch.                                   *)
(***************************************************************************)
\* C22: the filters of a search are conjunctive: every row returned matches
\* the query, has exactly the type asked for when a type is given and was
\* created at or after since when since is given; and every row that
\* matches and passes the filters given is in one of the result sets the
\* search can return.
C22_FiltersConjunctive ==
    (resp.op = "POST /api/search" /\ ~resp.error) =>
        /\ \A i \in resp.results :
              /\ i \in 1..Len(observations)
              /\ QueryTerms(resp.query) \subseteq FtsDoc(observations[i])
              /\ OrNullStr(resp.type) # None => observations[i].type = Val(resp.type)
              /\ resp.since # None => observations[i].created_at >= Val(resp.since)
        /\ \A i \in RowsAskedFor(resp.query, resp.type, resp.since) :
              \E r \in postSearch(DB, resp.query, resp.type, resp.since, resp.limit) :
                  i \in r.results

\* C22 witness: two bugfix observations that match the query, searched with
\* the type and a since between their creation times: only the later one is
\* returned.
C22_Witness ==
    /\ resp.op = "POST /api/search"
    /\ resp.query = S.fix
    /\ resp.type = Some(S.bugfix)
    /\ resp.since # None
    /\ Len(observations) = 2
    /\ \A i \in 1..2 : observations[i].type = S.bugfix
                       /\ S.fix \in FtsDoc(observations[i])
    /\ observations[1].created_at < Val(resp.since)
    /\ resp.results = {2}

\* C23: a search returns at most limit rows for every limit >= 0 the caller
\* supplies and at most 10 rows when the caller supplies none, and the count
\* it reports is the number of rows returned.
C23_AtMostLimitRows ==
    resp.op = "POST /api/search" =>
        /\ resp.count = Cardinality(resp.results)
        /\ (resp.limit # None /\ Val(resp.limit) >= 0) =>
              Cardinality(resp.results) <= Val(resp.limit)
        /\ resp.limit = None => Cardinality(resp.results) <= 10

\* C24: POST /api/search always answers successfully and leaves the store as
\* it was: for a query that does not parse with no results, count 0 and the
\* error indicator; for a query that parses and matches no row (the store may
\* be empty) with no results and count 0.
C24_SearchFailureContained ==
    [][resp'.op = "POST /api/search" =>
          /\ resp'.status = 200
          /\ ~QueryParses(resp'.query) =>
                resp'.results = {} /\ resp'.count = 0 /\ resp'.error
          /\ sessions' = sessions
          /\ observations' = observations
          /\ observations_fts' = observations_fts
          /\ ( /\ QueryParses(resp'.query)
               /\ \A i \in 1..Len(observations) :
                     \/ ~(QueryTerms(resp'.query) \subseteq observations_fts[i])
                     \/ (OrNullStr(resp'.type) # None
                            /\ observations[i].type # Val(resp'.type))
                     \/ (resp'.since # None
                            /\ observations[i].created_at < Val(resp'.since)) ) =>
                resp'.results = {} /\ resp'.count = 0 /\ ~resp'.error]_vars

\* C24 witness: a query with an unbalanced parenthesis, asked of a store that
\* holds a matching observation, answered with the error indicator.
C24_Witness ==
    /\ resp.op = "POST /api/search"
    /\ resp.query = Text.bad_query
    /\ resp.status = 200
    /\ resp.error
    /\ resp.results = {}
    /\ \E i \in 1..Len(observations) : S.fix \in FtsDoc(observations[i])

(***************************************************************************)
(* SpecTruncate: the two truncations of POST /api/hooks/tool-result, applied *)
(* to texts at, below and beyond the two limits.  (The hook as a whole is   *)
(* HookToolResult of Spec, over short texts.)                               *)
(***************************************************************************)
\* The text of n characters c.
Repeat(c, n) == [i \in 1..n |-> c]

\* Lengths around a limit: empty, short, one below, at, one beyond, twice.
LengthsNear(maxLength) ==
    {0, 3, maxLength - 1, maxLength, maxLength + 1, 2 * maxLength}

\* `input: truncateForStorage(input, 5000), output: truncateForStorage(output, 10000)`
TruncateForStorage(input, output) ==
    /\ resp' = [op |-> "truncateForStorage", status |-> 200,
                input |-> input, output |-> output,
                stored_input |-> truncateForStorage(input, InputMaxLength),
                stored_output |-> truncateForStorage(output, OutputMaxLength)]
    /\ UNCHANGED <<sessions, observations, observations_fts, now, endApplied, cfg, currentSessionKey, workerAvailable>>

NextTruncate ==
    \E ci, co \in {"a", "B"} :
        \E ni \in LengthsNear(InputMaxLength), no \in LengthsNear(OutputMaxLength) :
            TruncateForStorage(Repeat(ci, ni), Repeat(co, no))

SpecTruncate == Init /\ [][NextTruncate]_vars

\* C28: the input the tool-result hook stores has at most 5000 characters and
\* the output at most 10000, and a text within its bound is stored unchanged.
C28_StoredTextBounded ==
    resp.op = "truncateForStorage" =>
        /\ Len(resp.stored_input) <= 5000
        /\ Len(resp.stored_output) <= 10000
        /\ Len(resp.input) <= 5000 => resp.stored_input = resp.input
        /\ Len(resp.output) <= 10000 => resp.stored_output = resp.output

(***************************************************************************)
(* Frame properties of the store under Spec.                                *)
(***************************************************************************)
EndOps == {"POST /api/sessions/:key/end", "POST /api/hooks/session-end"}

\* C30: an end request for a session_key that has no session is answered
\* with success and leaves every session, every observation and the index as
\* they were; in particular it creates no session.
C30_UnknownKeyEndChangesNothing ==
    [][( /\ resp'.op \in EndOps
         /\ getSession(DB, resp'.session_key) = None ) =>
           /\ resp'.status = 200
           /\ resp'.success
           /\ sessions' = sessions
           /\ observations' = observations
           /\ observations_fts' = observations_fts]_vars

\* C30 witness: an end request for s2, answered with success while the store
\* holds only the session of s1, still open, and an observation.
C30_Witness ==
    /\ resp.op \in EndOps
    /\ resp.session_key = "s2"
    /\ resp.success
    /\ Len(sessions) = 1
    /\ sessions[1].session_key = "s1"
    /\ sessions[1].ended_at = None
    /\ Len(observations) >= 1

(***************************************************************************)
(* SpecStore: every route of the worker, the writes interleaved with the     *)
(* reads: a search, a context injection, a timeline and a batch fetch.      *)
(***************************************************************************)
NextStore ==
    \/ Tick
    \/ PostSessions("s1", Some("p1"))
    \/ HookSessionStart("s2", None, "rowid_asc")
    \/ PostSessionEnd("s1", Some(Text.ok))
    \/ HookSessionEnd("s2", None)
    \/ \E b \in ObsBodies : PostObservations(b)
    \/ \E b \in ToolBodies : HookToolResult(b)
    \/ PostSearch(S.fix, None, None, None)
    \/ GetContext(None, None, "rowid_asc")
    \/ PostTimeline(Some(1), None, "rowid_asc")
    \/ PostObservationsBatch(Some(<<1, 2>>), "rowid_desc")

SpecStore == Init /\ [][NextStore]_vars

\* C27: no step deletes or alters an observation: every observation of the
\* state before is in the state after under the same id, with the same
\* session_id, created_at, type, input and output; and a new observation
\* gets an id no observation has had (ids are the positions 1, 2, ...).
C27_ObservationsImmutable ==
    [][/\ Len(observations') >= Len(observations)
       /\ \A i \in 1..Len(observations) :
             /\ observations'[i].id = observations[i].id
             /\ observations'[i].session_id = observations[i].session_id
             /\ observations'[i].created_at = observations[i].created_at
             /\ observations'[i].type = observations[i].type
             /\ observations'[i].input = observations[i].input
             /\ observations'[i].output = observations[i].output
       /\ \A i \in 1..Len(observations') : observations'[i].id = i]_vars

\* C27 witness: a batch fetch answered with two observations of different
\* creation times, after the session of the first was ended.
C27_Witness ==
    /\ resp.op = "POST /api/observations/batch"
    /\ Len(resp.observations) = 2
    /\ observations[1].created_at < observations[2].created_at
    /\ sessions[observations[1].session_id].ended_at # None

(***************************************************************************)
(* MemoryWorkerClient (extension/index.ts).  A fetch ends in one of four    *)
(* ways: "ok", the worker runs the route and answers what the route         *)
(* answers; "unreachable", fetch rejects; "non_ok", an answer with an error *)
(* status the route never saw; "unparsable", status 200 with a body that is *)
(* not JSON, the route not run either.  A method is [db, threw, value]: the *)
(* database it leaves and what it returns, unless it threw.                 *)
(***************************************************************************)
FetchOutcomes == {"ok", "unreachable", "non_ok", "unparsable"}

Thrown(db) == [db |-> db, threw |-> TRUE, value |-> None]

Returned(db, v) == [db |-> db, threw |-> FALSE, value |-> v]

\* try { ... } catch { return fallback } without its catch clause.
catch_Rethrow(attempt, fallback) == attempt

\* try { ... } catch { return fallback }
catch(attempt, fallback) ==
    IF attempt.threw THEN Returned(attempt.db, fallback) ELSE attempt

\* health(): res.ok of GET /api/health, false when fetch rejects.
client_health(db, w) ==
    catch(IF w = "unreachable" THEN Thrown(db)
          ELSE Returned(db, w \in {"ok", "unparsable"}),
          FALSE)

\* createSession(sessionKey, projectPath): POST /api/hooks/session-start.
client_createSession(db, sessionKey, projectPath, w, tie, t) ==
    catch(CASE w = "unreachable" -> Thrown(db)
            [] w = "non_ok" -> Returned(db, None)
            [] w = "unparsable" -> Thrown(db)
            [] OTHER ->
                 LET r == hookSessionStart(db, sessionKey, projectPath, tie, t)
                 IN IF r.resp.status # 200 THEN Returned(r.db, None)
                    ELSE Returned(r.db, Some([id |-> r.resp.session.id])),
          None)

\* storeObservation(params): POST /api/observations; JSON.stringify leaves
\* out the fields that are undefined (summary, and tokens is never sent).
client_storeObservation(db, params, w, t) ==
    catch(CASE w = "unreachable" -> Thrown(db)
            [] w = "non_ok" -> Returned(db, None)
            [] w = "unparsable" -> Thrown(db)
            [] OTHER ->
                 LET r == postObservations(db,
                              [session_key |-> params.sessionKey,
                               type |-> params.type,
                               tool_name |-> params.toolName,
                               input |-> params.input,
                               output |-> params.output,
                               summary |-> params.summary,
                               tokens |-> None,
                               importance |-> params.importance], t)
                 IN IF r.resp.status # 200 THEN Returned(r.db, None)
                    ELSE Returned(r.db, Some([id |-> r.resp.observation.id])),
          None)

\* getContext(options): GET /api/context, with max_tokens and project_path
\* in the query string when they are truthy.
client_getContext(db, maxTokens, projectPath, w, tie) ==
    catch(CASE w = "unreachable" -> Thrown(db)
            [] w = "non_ok" -> Returned(db, None)
            [] w = "unparsable" -> Thrown(db)
            [] OTHER ->
                 Returned(db, Some(getContext(db, OrNullPath(projectPath),
                     IF OrNullNum(maxTokens) = None THEN None
                     ELSE Some(toString10(Val(maxTokens))), tie))),
          None)

(***************************************************************************)
(* The plugin's lifecycle hooks (extension/index.ts, register).             *)
(***************************************************************************)
\* truncate(text, maxLen) of the plugin: "" for a missing or empty text.
truncate(text, maxLen) ==
    IF Len(text) <= maxLen THEN text
    ELSE substring0(text, maxLen) \o <<".", ".", ".">>

\* What agent_end pushes for a tool_result block: the tool name is the
\* block's tool_use_id, the input is empty, the output the block's content.
toolResult(block) ==
    [toolName |-> IF OrNullStr(block.tool_use_id) = None
                  THEN <<"u", "n", "k", "n", "o", "w", "n">>
                  ELSE Val(block.tool_use_id),
     input |-> S_empty,
     output |-> IF OrNullStr(block.content) = None THEN S_empty ELSE Val(block.content)]

\* The loop `for (const result of toolResults.slice(0, 10))` from result
\* k + 1 on: stored is the list of ids the worker answered so far.
RECURSIVE captureLoop(_, _, _, _, _, _, _)
captureLoop(db, toolResults, k, sessionKey, w, t, stored) ==
    IF k >= Len(toolResults) \/ k >= 10 THEN [db |-> db, stored |-> stored]
    ELSE LET result == toolResults[k + 1]
             classification == classifyToolResult(result.toolName, result.input,
                                                  result.output)
             r == client_storeObservation(db,
                      [sessionKey |-> sessionKey,
                       type |-> classification.type,
                       toolName |-> Some(result.toolName),
                       input |-> Some(truncate(result.input, 2000)),
                       output |-> Some(truncate(result.output, 5000)),
                       summary |-> None,
                       importance |-> Some(classification.importance)], w, t)
         IN IF classification.importance < 50
            THEN captureLoop(db, toolResults, k + 1, sessionKey, w, t, stored)
            ELSE captureLoop(r.db, toolResults, k + 1, sessionKey, w, t,
                             IF r.value = None THEN stored
                             ELSE Append(stored, Val(r.value).id))

\* service.start: workerAvailable = await client.health()
ServiceStart(h) ==
    /\ workerAvailable' = client_health(DB, h).value
    /\ resp' = [op |-> "service.start", status |-> 200]
    /\ UNCHANGED <<sessions, observations, observations_fts, now, endApplied,
                   cfg, currentSessionKey>>

\* The event before_agent_start of a run of session event.sessionKey; h is
\* how the health request ends, w how the two requests after it end.  The
\* handler is registered unless autoRecall is false.
BeforeAgentStart(event, h, w, tie) ==
    /\ UNCHANGED <<now, endApplied, cfg>>
    /\ IF ~cfg.autoRecall
       THEN /\ resp' = [op |-> "before_agent_start", status |-> 200,
                        session_key |-> event.sessionKey, prependContext |-> None]
            /\ UNCHANGED <<sessions, observations, observations_fts,
                           currentSessionKey, workerAvailable>>
       ELSE /\ workerAvailable' = client_health(DB, h).value
            /\ IF ~client_health(DB, h).value
               THEN /\ resp' = [op |-> "before_agent_start", status |-> 200,
                                session_key |-> event.sessionKey,
                                prependContext |-> None]
                    /\ UNCHANGED <<sessions, observations, observations_fts,
                                   currentSessionKey>>
               ELSE LET key == IF OrNullPath(event.sessionKey) = None
                               THEN "session-" \o ToString(now)
                               ELSE Val(event.sessionKey)
                        created == client_createSession(DB, key, event.workspaceDir,
                                                        w, tie, now)
                        context == client_getContext(created.db,
                                       Some(IF cfg.maxContextTokens = 0 THEN 4000
                                            ELSE cfg.maxContextTokens),
                                       event.workspaceDir, w, tie)
                    IN /\ currentSessionKey' = Some(key)
                       /\ SetDB(created.db)
                       /\ resp' = [op |-> "before_agent_start", status |-> 200,
                                   session_key |-> event.sessionKey,
                                   prependContext |->
                                       IF \/ ~event.longPrompt
                                          \/ context.value = None
                                          \/ Val(context.value).contextText = <<>>
                                          \/ Val(context.value).observations = <<>>
                                       THEN None
                                       ELSE Some([totalTokens |->
                                                      Val(context.value).totalTokens,
                                                  contextText |->
                                                      Val(context.value).contextText])]

\* The event agent_end of a run of session event.sessionKey, with the
\* tool_result blocks of event.messages; w is how the store requests end.
\* The handler is registered unless autoCapture is false.
AgentEnd(event, w) ==
    /\ UNCHANGED <<now, endApplied, cfg, currentSessionKey, workerAvailable>>
    /\ IF \/ ~cfg.autoCapture
          \/ ~workerAvailable \/ currentSessionKey = None
          \/ ~event.success
       THEN /\ resp' = [op |-> "agent_end", status |-> 200,
                        session_key |-> event.sessionKey, success |-> event.success,
                        toolResults |-> event.toolResults, worker |-> w,
                        stored |-> <<>>]
            /\ UNCHANGED <<sessions, observations, observations_fts>>
       ELSE LET toolResults == [k \in 1..Len(event.toolResults) |->
                                   toolResult(event.toolResults[k])]
                r == captureLoop(DB, toolResults, 0, Val(currentSessionKey), w, now, <<>>)
            IN /\ SetDB(r.db)
               /\ resp' = [op |-> "agent_end", status |-> 200,
                           session_key |-> event.sessionKey, success |-> event.success,
                           toolResults |-> event.toolResults, worker |-> w,
                           stored |-> r.stored]

(***************************************************************************)
(* SpecPlugin: one plugin instance serving the runs of two sessions, under  *)
(* each configuration of autoCapture and autoRecall.                        *)
(***************************************************************************)
InitPlugin ==
    /\ sessions = <<>>
    /\ observations = <<>>
    /\ observations_fts = <<>>
    /\ now = 1
    /\ resp = [op |-> "none", status |-> 0]
    /\ endApplied = {}
    /\ \E ac, ar \in BOOLEAN :
          register([autoCapture |-> ac, autoRecall |-> ar, maxContextTokens |-> 4000])

\* The tool_result blocks of a run: a write that fixed something, a read
\* and a block without id and content, at most two of them, or eleven
\* writes and reads in turn.
NextPlugin ==
    \/ \E h \in {"ok", "unreachable"} : ServiceStart(h)
    \/ \E k \in SessionKeys, lp \in BOOLEAN, h, w \in {"ok", "unreachable"} :
          BeforeAgentStart([sessionKey |-> Some(k), workspaceDir |-> Some("p1"),
                            longPrompt |-> lp], h, w, "rowid_asc")
    \/ LET blocks ==
               { [tool_use_id |-> Some(Text.Write),
                  content |-> Some(Text.fixed_tests_passed)],
                 [tool_use_id |-> Some(Text.Read), content |-> Some(Text.ok)],
                 [tool_use_id |-> None, content |-> None] }
           lists ==
               UNION { [1..n -> blocks] : n \in 0..2 }
                   \cup { [n \in 1..11 |->
                             IF n % 2 = 1
                             THEN [tool_use_id |-> Some(Text.Write),
                                   content |-> Some(Text.ok)]
                             ELSE [tool_use_id |-> Some(Text.Read),
                                   content |-> Some(Text.ok)]] }
       IN \E k \in SessionKeys, ok \in BOOLEAN, l \in lists,
             w \in {"ok", "unreachable"} :
             /\ Len(observations) < MaxObs
             /\ AgentEnd([sessionKey |-> Some(k), success |-> ok, toolResults |-> l], w)

SpecPlugin == InitPlugin /\ [][NextPlugin]_vars

\* The places among the first 10 tool results of an agent_end whose
\* classified importance is at least 0.5, in order.
ImportantPlaces(blocks) ==
    SelectSeq([k \in 1..(IF Len(blocks) < 10 THEN Len(blocks) ELSE 10) |-> k],
              LAMBDA k : classifyToolResult(toolResult(blocks[k]).toolName, S_empty,
                                            toolResult(blocks[k]).output).importance >= 50)

\* C26: whenever autoCapture is enabled and the worker is reachable, a
\* successful agent_end stores every tool result among its first 10 whose
\* classified importance is at least 0.5 and none below 0.5, for every
\* setting of autoRecall and whether or not a before_agent_start preceded it.
\* The worker is reachable when it answered the plugin's last health request
\* and answers the requests of the agent_end.
C26_AutoCaptureStoresImportant ==
    (/\ resp.op = "agent_end"
     /\ cfg.autoCapture /\ workerAvailable /\ resp.worker = "ok" /\ resp.success)
        => /\ Len(resp.stored) = Len(ImportantPlaces(resp.toolResults))
           /\ \A j \in 1..Len(resp.stored) :
                 /\ resp.stored[j] \in 1..Len(observations)
                 /\ observations[resp.stored[j]].tool_name
                        = Some(toolResult(resp.toolResults[
                                   ImportantPlaces(resp.toolResults)[j]]).toolName)

\* C29: the observations captured at the agent_end of a run are stored under
\* the session key of that run, also when a before_agent_start of the other
\* session came between the run's before_agent_start and its agent_end.
\* The session of the run exists once its before_agent_start created it.
C29_CapturedUnderOwnSession ==
    (/\ resp.op = "agent_end"
     /\ \E i \in 1..Len(sessions) : sessions[i].session_key = Val(resp.session_key))
        => \A j \in 1..Len(resp.stored) :
              /\ resp.stored[j] \in 1..Len(observations)
              /\ sessions[observations[resp.stored[j]].session_id].session_key
                     = Val(resp.session_key)

(***************************************************************************)
(* The other methods of MemoryWorkerClient, and the hook functions of the   *)
(* hooks module.  search and searchMemory give the set of the outcomes the  *)
(* bm25 order leaves open.                                                  *)
(***************************************************************************)
\* search(query, options): POST /api/search {query, type, limit}; the list
\* of results is the set of their ids, [] the empty set.
client_search(db, query, type, limit, w) ==
    CASE w = "unreachable" -> {catch(Thrown(db), {})}
      [] w = "non_ok" -> {Returned(db, {})}
      [] w = "unparsable" -> {catch(Thrown(db), {})}
      [] OTHER -> { catch(IF r.status # 200 THEN Returned(db, {})
                          ELSE Returned(db, r.results), {}) :
                    r \in postSearch(db, query, type, None, limit) }

\* getObservation(id): GET /api/observations/:id, 404 for an unknown id.
client_getObservation(db, id, w) ==
    catch(CASE w = "unreachable" -> Thrown(db)
            [] w = "non_ok" -> Returned(db, None)
            [] w = "unparsable" -> Thrown(db)
            [] OTHER -> Returned(db, getObservation(db, id)),
          None)

\* getObservations(ids): POST /api/observations/batch {ids}.
client_getObservations(db, ids, w, tie) ==
    catch(CASE w = "unreachable" -> Thrown(db)
            [] w = "non_ok" -> Returned(db, <<>>)
            [] w = "unparsable" -> Thrown(db)
            [] OTHER ->
                 LET r == postObservationsBatch(db, Some(ids), tie)
                 IN IF r.status # 200 THEN Returned(db, <<>>)
                    ELSE Returned(db, r.observations),
          <<>>)

\* endSession(sessionKey, summary): res.ok of POST /api/hooks/session-end;
\* the body of the answer is not read.
client_endSession(db, sessionKey, summary, w, t) ==
    catch(CASE w = "unreachable" -> Thrown(db)
            [] w = "non_ok" -> Returned(db, FALSE)
            [] w = "unparsable" -> Returned(db, TRUE)
            [] OTHER ->
                 LET r == hookSessionEnd(db, sessionKey, summary, t)
                 IN Returned(r.db, r.resp.status = 200),
          FALSE)

\* isWorkerRunning(): res.ok of GET /api/health, false when fetch rejects.
isWorkerRunning(db, h) ==
    catch(IF h = "unreachable" THEN Thrown(db)
          ELSE Returned(db, h \in {"ok", "unparsable"}),
          FALSE)

\* The body of a hook function: `if (!await isWorkerRunning()) return
\* {success: false, error: 'Worker not running'}`, then attempt, the rest of
\* its try block; its catch clause returns success false with the message of
\* the caught error.
hookTry(db, h, attempt) ==
    catch(IF isWorkerRunning(db, h).threw THEN Thrown(db)
          ELSE IF ~isWorkerRunning(db, h).value
          THEN Returned(db, [success |-> FALSE, error |-> "Worker not running"])
          ELSE attempt,
          [success |-> FALSE, error |-> "error.message"])

\* onSessionStart(options): POST /api/hooks/session-start, the context of
\* the answer formatted for injection.
onSessionStart(db, options, h, w, tie, t) ==
    hookTry(db, h,
        IF w # "ok" THEN Thrown(db)
        ELSE LET r == hookSessionStart(db, options.sessionKey, options.projectPath,
                                       tie, t)
                 data == r.resp
                 contextLines == [k \in 1..Len(data.context.observations) |->
                                     contextLine(r.db.observations[
                                         data.context.observations[k]])]
             IN IF data.status # 200 THEN Thrown(r.db)
                ELSE Returned(r.db,
                       [success |-> TRUE,
                        data |-> [sessionId |-> data.session.id,
                                  contextText |->
                                      IF Len(contextLines) > 0
                                      THEN <<"#", "#", " ", "R", "e", "c", "e", "n", "t",
                                             " ", "M", "e", "m", "o", "r", "y", " ", "(">>
                                           \o toString10(data.context.totalTokens)
                                           \o <<" ", "t", "o", "k", "e", "n", "s", ")",
                                                "\n", "\n">>
                                           \o joinLines(contextLines)
                                      ELSE <<>>,
                                  totalTokens |-> data.context.totalTokens]]))

\* onToolResult(options): POST /api/hooks/tool-result.
onToolResult(db, options, h, w, t) ==
    hookTry(db, h,
        IF w # "ok" THEN Thrown(db)
        ELSE LET r == hookToolResult(db,
                          [session_key |-> options.sessionKey,
                           tool_name |-> options.toolName,
                           input |-> options.input, output |-> options.output,
                           type |-> options.type,
                           importance |-> options.importance], t)
             IN IF r.resp.status # 200 THEN Thrown(r.db)
                ELSE Returned(r.db, [success |-> TRUE,
                                     data |-> [observationId |->
                                                   r.resp.observation.id]]))

\* onSessionEnd(options): POST /api/hooks/session-end; the body of the
\* answer is not read.
onSessionEnd(db, options, h, w, t) ==
    hookTry(db, h,
        CASE w \in {"unreachable", "non_ok"} -> Thrown(db)
          [] w = "unparsable" -> Returned(db, [success |-> TRUE])
          [] OTHER ->
               LET r == hookSessionEnd(db, options.sessionKey, options.summary, t)
               IN IF r.resp.status # 200 THEN Thrown(r.db)
                  ELSE Returned(r.db, [success |-> TRUE]))

\* searchMemory(options): POST /api/search.
searchMemory(db, options, h, w) ==
    IF w # "ok" THEN {hookTry(db, h, Thrown(db))}
    ELSE { hookTry(db, h,
               IF r.status # 200 THEN Thrown(db)
               ELSE Returned(db, [success |-> TRUE,
                                  data |-> [results |-> r.results, count |-> r.count]])) :
           r \in postSearch(db, options.query, options.type, options.since,
                            options.limit) }

\* getObservations(ids) of the hooks module: POST /api/observations/batch.
hooks_getObservations(db, ids, h, w, tie) ==
    hookTry(db, h,
        IF w # "ok" THEN Thrown(db)
        ELSE LET r == postObservationsBatch(db, Some(ids), tie)
             IN IF r.status # 200 THEN Thrown(db)
                ELSE Returned(db, [success |-> TRUE,
                                   data |-> [observations |-> r.observations]]))

\* getTimeline(options) of the hooks module: POST /api/timeline with
\* range_hours: options.rangeHours || 2.
hooks_getTimeline(db, options, h, w, tie) ==
    hookTry(db, h,
        IF w # "ok" THEN Thrown(db)
        ELSE LET r == postTimeline(db, Some(options.observationId),
                          IF OrNullNum(options.rangeHours) = None THEN Some(2)
                          ELSE options.rangeHours, tie)
             IN IF r.status # 200 THEN Thrown(db)
                ELSE Returned(db, [success |-> TRUE,
                                   data |-> [observations |-> r.observations]]))

(***************************************************************************)
(* SpecClient: the callers' side.  Each step is one call of a client method *)
(* or a hook function, the health request ending as h and the request after *)
(* it as w.                                                                 *)
(***************************************************************************)
\* A call of function op that came out as r, and ended the sessions ended.
Call(op, h, w, r, ended) ==
    /\ SetDB(r.db)
    /\ resp' = [op |-> op, status |-> 200, health |-> h, worker |-> w,
                threw |-> r.threw, value |-> r.value]
    /\ endApplied' = endApplied \cup ended
    /\ UNCHANGED <<now, cfg, currentSessionKey, workerAvailable>>

NextClient ==
    \/ \E h \in FetchOutcomes :
          \/ Call("client.health", h, h, client_health(DB, h), {})
          \/ Call("isWorkerRunning", h, h, isWorkerRunning(DB, h), {})
    \/ \E w \in FetchOutcomes :
          \/ Call("client.createSession", "ok", w,
                  client_createSession(DB, "s1", Some("p1"), w, "rowid_asc", now), {})
          \/ /\ Len(observations) < MaxObs
             /\ Call("client.storeObservation", "ok", w,
                     client_storeObservation(DB,
                         [sessionKey |-> "s1", type |-> S.bugfix,
                          toolName |-> Some(Text.Write), input |-> Some(S_empty),
                          output |-> Some(Text.fixed_tests_passed), summary |-> None,
                          importance |-> Some(90)], w, now), {})
          \/ Call("client.endSession", "ok", w,
                  client_endSession(DB, "s1", None, w, now),
                  IF w = "ok" THEN SessionsOfKey("s1") ELSE {})
          \/ \E r \in client_search(DB, S.fix, None, None, w) :
                Call("client.search", "ok", w, r, {})
          \/ \E id \in {1, 999} :
                Call("client.getObservation", "ok", w, client_getObservation(DB, id, w), {})
          \/ Call("client.getObservations", "ok", w,
                  client_getObservations(DB, <<1, 999>>, w, "rowid_asc"), {})
          \/ Call("client.getContext", "ok", w,
                  client_getContext(DB, Some(4000), None, w, "rowid_asc"), {})
    \/ \E h, w \in FetchOutcomes :
          \/ Call("onSessionStart", h, w,
                  onSessionStart(DB, [sessionKey |-> "s2", projectPath |-> Some("p1")],
                                 h, w, "rowid_asc", now), {})
          \/ /\ Len(observations) < MaxObs
             /\ Call("onToolResult", h, w,
                     onToolResult(DB,
                         [sessionKey |-> "s2", toolName |-> Text.Write,
                          input |-> S_empty, output |-> Text.fixed_tests_passed,
                          type |-> None, importance |-> None], h, w, now), {})
          \/ Call("onSessionEnd", h, w,
                  onSessionEnd(DB, [sessionKey |-> "s2", summary |-> None], h, w, now),
                  IF w = "ok" /\ h \in {"ok", "unparsable"}
                  THEN SessionsOfKey("s2") ELSE {})
          \/ \E r \in searchMemory(DB, [query |-> S.fix, type |-> None, since |-> None,
                                        limit |-> None], h, w) :
                Call("searchMemory", h, w, r, {})
          \/ Call("getObservations", h, w,
                  hooks_getObservations(DB, <<1, 999>>, h, w, "rowid_asc"), {})
          \/ Call("getTimeline", h, w,
                  hooks_getTimeline(DB, [observationId |-> 1, rangeHours |-> None],
                                    h, w, "rowid_asc"), {})

SpecClient == Init /\ [][NextClient]_vars

\* The hook functions, and the functions that look only at the status of
\* the answer and never read its body.
HookOps ==
    {"onSessionStart", "onToolResult", "onSessionEnd", "searchMemory",
     "getObservations", "getTimeline"}

StatusOnlyOps == {"client.health", "isWorkerRunning", "client.endSession", "onSessionEnd"}

\* The call recorded in resp returned its explicit failure value: success
\* false for a hook function, false for the three boolean functions, the
\* empty list for search and getObservations, null for the others.
ReturnedFailure ==
    /\ ~resp.threw
    /\ CASE resp.op \in HookOps -> ~resp.value.success
         [] resp.op \in {"client.health", "isWorkerRunning", "client.endSession"} ->
                resp.value = FALSE
         [] resp.op = "client.search" -> resp.value = {}
         [] resp.op = "client.getObservations" -> resp.value = <<>>
         [] OTHER -> resp.value = None

\* C25 as stated: no hook function and no client method throws, and each
\* returns its explicit failure value (isWorkerRunning false) when the worker
\* is unreachable, answers with a non-OK status or returns an unparsable body.
C25_UnavailabilityNeverEscalated ==
    resp.op # "none"
        => /\ ~resp.threw
           /\ (\/ resp.health \in {"unreachable", "non_ok", "unparsable"}
               \/ resp.worker \in {"unreachable", "non_ok", "unparsable"})
                  => ReturnedFailure

\* C25, amended: no hook function and no client method throws; each returns
\* its explicit failure value (isWorkerRunning false) when the worker is
\* unreachable or answers with a non-OK status, and also when the body of the
\* answer is unparsable and the function reads it.  health, isWorkerRunning,
\* endSession and onSessionEnd look only at the status.
C25_FailureValueUnlessBodyUnread ==
    resp.op # "none"
        => /\ ~resp.threw
           /\ (\/ resp.health \in {"unreachable", "non_ok"}
               \/ resp.worker \in {"unreachable", "non_ok"}
               \/ resp.worker = "unparsable" /\ resp.op \notin StatusOnlyOps)
                  => ReturnedFailure

\* onToolResult was called on a filled store while the worker passed the
\* health request and answered the next one with an unparsable body, and
\* returned success false.
C25_Witness ==
    /\ resp.op = "onToolResult"
    /\ resp.health = "ok" /\ resp.worker = "unparsable"
    /\ ~resp.threw /\ ~resp.value.success
    /\ observations # <<>>

====
